---- MODULE Spec2Model ----
(***************************************************************************)
(* Offline-first synchronisation engine of appz-groceries: the pending     *)
(* action log (IndexedDB store "pendingActions"), the SyncQueue drain pass *)
(* (lib/sync-queue.ts) and the client operations that touch the log.       *)
(*                                                                         *)
(* JavaScript runs each handler to its next await; an await on the store   *)
(* or on fetch is a point where other handlers may run.  The pass is       *)
(* therefore a small program counter machine: pc names the await the pass  *)
(* is suspended at ("load": getPendingActions, "fetch": executeAction,     *)
(* "retryPut": the put of updatePendingAction, "count": getPendingCount),  *)
(* one action runs the pass from one await to the next, and every other    *)
(* handler is one action.                                                  *)
(***************************************************************************)
EXTENDS Integers, Sequences, FiniteSets, TLC

\* ---------------------------------------------------------------- bounds
MaxActions == 2
MaxClock == 1
MaxRand == 2
MaxTimers == 1
MaxWaiting == 1
MaxMutations == 2
MaxServerId == 4
MaxRegisters == 2
MaxReads == 2
MaxLists == 2
MaxItems == 2
MaxVersion == 4

\* ------------------------------------------------------ program constants
MAX_RETRIES == 5
RETRY_DELAYS == <<1000, 2000, 5000, 10000, 30000>>

ActionTypes == {"list.create", "item.toggle"}

\* What the awaited fetch of executeAction can produce: a Response with a
\* status, a TypeError whose message contains "fetch", or any other throw.
Outcomes ==
  { [kind |-> "response", status |-> s] : s \in {200, 400, 409, 500} }
  \cup { [kind |-> "networkError", status |-> 0],
         [kind |-> "error", status |-> 0] }

NoOutcome == [kind |-> "none", status |-> 0]

VARIABLES
  online,       \* navigator.onLine
  now,          \* the latest value Date.now() has returned
  log,          \* object store pendingActions: set of PendingAction records
  nextSeq,      \* number of enqueue calls made so far, plus one
  enqWaiting,   \* enqueue calls suspended at `await addPendingAction`
  timers,       \* number of pending setTimeout(() => processQueue()) calls
  isProcessing, \* SyncQueue.isProcessing
  pc,           \* where the drain pass is suspended
  actions,      \* the array returned by getPendingActions() in this pass
  idx,          \* position of the for loop in actions
  resp,         \* what executeAction produced for actions[idx]
  existing,     \* result of db.get inside updatePendingAction
  events,       \* events emitted since the last sync-start
  reqs,         \* requests issued since the last sync-start
  delays,       \* delays given to setTimeout since the last sync-start
  clean,        \* since the last sync-start the connection has stayed up
                \* and every response was 2xx
  stopped,      \* why the for loop was left early: "", "offline" or "network"
  collapsed,    \* a processQueue() call returned at the isProcessing guard
                \* since the last sync-start
  dbOk,         \* getDB() resolves: the database can be opened
  mounted,      \* the effect of useOnlineStatus has subscribed to syncQueue
  isSyncing,    \* useOnlineStatus: isSyncing
  dbLists,      \* object store lists of the mirror: set of lists
  dbItems,      \* object store items of the mirror: set of items
  qLists,       \* query cache, key ["lists"]
  qItems,       \* query cache, key ["lists", listId, "items"]
  muts,         \* the mutations in progress, by slot
  txOrder,      \* the callers with a request on the mirror pending, oldest first
  nextUlid,     \* number of ulid() calls made for entities, plus one
  srvLists,     \* the lists the server holds
  invalidated,  \* the query keys invalidateQueries has marked for a refetch
  fetches,      \* the queryFn call in progress, by query key
  qError,       \* the query keys whose last queryFn call rejected
  isOnline,     \* navigator.onLine as read at the last render of the hooks
  hookOnline,   \* useOnlineStatus: isOnline
  pendingCount, \* useOnlineStatus: pendingCount
  countAsked,   \* getPendingCount() calls of useOnlineStatus not yet resolved
  srvItems,     \* the items the server holds
  users,        \* the users table of the server
  regs          \* the Register requests the server is handling, by slot

passVars == <<isProcessing, pc, actions, idx, resp, existing, events, reqs,
              delays, clean, stopped, collapsed, isSyncing>>
\* What no step of the sync queue changes.
queryVars == <<fetches, qError, isOnline>>
dataVars == <<dbLists, dbItems, qLists, qItems, muts, txOrder, nextUlid,
              srvLists, invalidated, queryVars>>
\* The state of useOnlineStatus that the specifications of the sync queue
\* do not follow, and the tables of the server.
countVars == <<pendingCount, countAsked>>
statusVars == <<hookOnline, countVars>>
backendVars == <<srvItems, users, regs>>
otherVars == <<statusVars, backendVars>>
clientVars == <<dbOk, mounted, dataVars, otherVars>>

vars == <<online, now, log, nextSeq, enqWaiting, timers, isProcessing, pc,
          actions, idx, resp, existing, events, reqs, delays, clean, stopped,
          collapsed, dbOk, mounted, isSyncing, dataVars, otherVars>>

\* ------------------------------------------------------------- the store
Ids(S) == { a.id : a \in S }

\* ulid(): 48 bits of time followed by 80 random bits; compared as strings,
\* that is by time first and by the random part second.
IdLess(i, j) == i[1] < j[1] \/ (i[1] = j[1] /\ i[2] < j[2])

\* Index "by-created": by createdAt, equal keys by primary key (id).
ByCreated(a, b) ==
  a.createdAt < b.createdAt \/ (a.createdAt = b.createdAt /\ IdLess(a.id, b.id))

RECURSIVE IndexOrder(_)
IndexOrder(S) ==
  IF S = {} THEN <<>>
  ELSE LET m == CHOOSE x \in S : \A y \in S \ {x} : ByCreated(x, y)
       IN <<m>> \o IndexOrder(S \ {m})

getPendingActions == IndexOrder(log)

getPendingCount == Cardinality(log)

removePendingAction(id) == { a \in log : a.id # id }

\* db.put: the record replaces whatever the store holds under the same key.
PutAction(rec) == { a \in log : a.id # rec.id } \cup {rec}

clearAllData == {}

\* ------------------------------------------------------------ the events
Event(type, id, error, count) ==
  [type |-> type, actionId |-> id, error |-> error, pending |-> count]

NoId == <<0, 0>>

\* ------------------------------------------------------------ backoff
\* The delay looked up with the incremented retryCount.
RetryDelayNext(r) ==
  IF r + 2 \in DOMAIN RETRY_DELAYS
  THEN RETRY_DELAYS[r + 2]
  ELSE RETRY_DELAYS[Len(RETRY_DELAYS)]

\* RETRY_DELAYS[action.retryCount] || RETRY_DELAYS[RETRY_DELAYS.length - 1]
\* (the array is indexed from 0 in the source, from 1 here).
RetryDelay(r) ==
  IF r + 1 \in DOMAIN RETRY_DELAYS
  THEN RETRY_DELAYS[r + 1]
  ELSE RETRY_DELAYS[Len(RETRY_DELAYS)]

Delays == { RETRY_DELAYS[i] : i \in DOMAIN RETRY_DELAYS }

\* ------------------------------------------------------- classification
\* The if-chain without its 409 branch and with 4xx tested as > 400.
ClassifyConflictRetried(o) ==
  IF o.kind = "response" THEN
    IF o.status >= 200 /\ o.status <= 299 THEN "complete"
    ELSE IF o.status > 409 /\ o.status < 500 THEN "clientError"
    ELSE IF o.status >= 400 /\ o.status < 409 THEN "clientError"
    ELSE "retry"
  ELSE IF o.kind = "networkError" THEN "break"
  ELSE "retry"

\* The if-chain with every 4xx, 409 apart, sent to handleRetry.
ClassifyClientRetried(o) ==
  IF o.kind = "response" THEN
    IF o.status >= 200 /\ o.status <= 299 THEN "complete"
    ELSE IF o.status = 409 THEN "conflict"
    ELSE "retry"
  ELSE IF o.kind = "networkError" THEN "break"
  ELSE "retry"

\* The if-chain and the catch of processQueue.
Classify(o) ==
  IF o.kind = "response" THEN
    IF o.status >= 200 /\ o.status <= 299 THEN "complete"
    ELSE IF o.status = 409 THEN "conflict"
    ELSE IF o.status >= 400 /\ o.status < 500 THEN "clientError"
    ELSE "retry"
  ELSE IF o.kind = "networkError" THEN "break"
  ELSE "retry"

ErrorText(o) == "error"

\* ----------------------------------------------------------------- Init
\* A page load with an empty store.
\* ------------------------------------------------ mirror and view: data
\* Entities carry the fields the mutations and the aggregates read; an
\* item's name, unit, category and store and the timestamps are left out
\* (they are copied, never computed on).  price 0 stands for null: every
\* use in the code is (price || 0).
ListRec(id, name, version, totalItems, checkedItems, totalPrice) ==
  [id |-> id, name |-> name, version |-> version, totalItems |-> totalItems,
   checkedItems |-> checkedItems, totalPrice |-> totalPrice]

ItemRec(id, lid, checked, price, quantity, sortOrder, version) ==
  [id |-> id, listId |-> lid, checked |-> checked, price |-> price,
   quantity |-> quantity, sortOrder |-> sortOrder, version |-> version]

\* The list the useItems hook is mounted for.
listId == 1

\* The n-th value ulid() returns: distinct from every server id.
ulid(n) == MaxServerId + n

\* A query's data: undefined until the first fetch or setQueryData.
Cached(s) == [loaded |-> TRUE, data |-> s]
Undefined == [loaded |-> FALSE, data |-> <<>>]

Map(s, F(_)) == [k \in 1..Len(s) |-> F(s[k])]
Elems(s) == { s[k] : k \in 1..Len(s) }
\* Array.prototype.find by id, as a set with at most one element.
FindById(s, id) == { x \in Elems(s) : x.id = id }

\* A set of records with distinct ids, in ascending id, as an array.
RECURSIVE AsSeq(_)
AsSeq(S) ==
  IF S = {} THEN <<>>
  ELSE LET x == CHOOSE y \in S : \A z \in S : y.id <= z.id
       IN  <<x>> \o AsSeq(S \ {x})

\* ----------------------------------------------- mirror: object stores
\* db.put, db.get and db.delete on a store keyed by id.
Put(store, rec) == { x \in store : x.id # rec.id } \cup {rec}
Get(store, id) == { x \in store : x.id = id }
Delete(store, id) == { x \in store : x.id # id }
\* db.getAllFromIndex("items", "by-list", listId)
ByList(store, lid) == { x \in store : x.listId = lid }

RECURSIVE SumPrice(_)
\* items.reduce((sum, i) => sum + (i.price || 0) * i.quantity, 0)
SumPrice(S) ==
  IF S = {} THEN 0
  ELSE LET i == CHOOSE x \in S : TRUE
       IN  i.price * i.quantity + SumPrice(S \ {i})

\* The list updateListCounts puts, from the items and the list it read.
WithCounts(list, its) ==
  [list EXCEPT !.totalItems = Cardinality(its),
               !.checkedItems = Cardinality({ i \in its : i.checked }),
               !.totalPrice = SumPrice(its)]

\* A call of a mutation: kind names it by the type it enqueues.
Request(kind, id, name, price, quantity, order) ==
  [kind |-> kind, id |-> id, name |-> name, price |-> price,
   quantity |-> quantity, order |-> order]

\* A mutation that has not been called.  req is the call; viewId and
\* mirrorId are the ulid() of onMutate and the ulid() of mutationFn;
\* previousLists, previousItems and lists are the context onMutate returns;
\* newChecked and sortOrder are what toggle and create compute from the
\* rendered items; k, found and items are the locals of the mirror
\* operation in progress.
NoMutation ==
  [pc |-> "idle", req |-> Request("", 0, "", 0, 0, <<>>), viewId |-> 0,
   mirrorId |-> 0, previousLists |-> Undefined, previousItems |-> Undefined,
   lists |-> Undefined, newChecked |-> FALSE, sortOrder |-> 0, k |-> 0,
   found |-> {}, items |-> {}]


\* The query keys: ["lists"] and ["lists", listId, "items"].
Keys == {"lists", "items"}

\* No queryFn call in progress.  data is the array the fetch returned,
\* existing the items setItems has read, cancelled tells that cancelQueries
\* has detached the call from its query.
NoFetch == [pc |-> "idle", data |-> <<>>, existing |-> {}, cancelled |-> FALSE]
NoFetches == [k \in Keys |-> NoFetch]

\* The mirror empty, nothing cached, no mutation called.
NoMutations == [s \in 1..MaxMutations |-> NoMutation]

\* A Register request the server is not handling.  username is the one it
\* asks for, status the status it was answered with.
NoRegister == [pc |-> "idle", username |-> "", status |-> 0]

\* The status hook as its first render leaves it, no read of the count
\* pending, and the server without items, users or requests.
OtherIdle ==
  /\ hookOnline = (mounted /\ online)
  /\ pendingCount = 0
  /\ countAsked = 0
  /\ srvItems = {}
  /\ users = {}
  /\ regs = [r \in 1..MaxRegisters |-> NoRegister]

ClientIdle ==
  /\ dbLists = {}
  /\ dbItems = {}
  /\ qLists = Undefined
  /\ qItems = Undefined
  /\ muts = NoMutations
  /\ txOrder = <<>>
  /\ nextUlid = 1
  /\ srvLists = {}
  /\ invalidated = {}
  /\ fetches = NoFetches
  /\ qError = {}
  /\ isOnline = TRUE

Init ==
  /\ online \in BOOLEAN
  /\ now = 0
  /\ log = {}
  /\ nextSeq = 1
  /\ enqWaiting = 0
  /\ timers = 0
  /\ isProcessing = FALSE
  /\ pc = "idle"
  /\ actions = <<>>
  /\ idx = 0
  /\ resp = NoOutcome
  /\ existing = {}
  /\ events = <<>>
  /\ reqs = <<>>
  /\ delays = <<>>
  /\ clean = FALSE
  /\ stopped = ""
  /\ collapsed = FALSE
  /\ dbOk = TRUE
  /\ mounted = TRUE
  /\ OtherIdle
  /\ isSyncing = FALSE
  /\ ClientIdle

\* ---------------------------------------------------------- processQueue
\* The listener of useOnlineStatus that leaves isSyncing alone on sync-error.
OnSyncEventIgnoringError(type) ==
  IF ~mounted THEN isSyncing
  ELSE IF type = "sync-start" THEN TRUE
  ELSE IF type = "sync-complete" THEN FALSE
  ELSE isSyncing

\* What emit() makes of isSyncing: the listener subscribed by useOnlineStatus
\* runs inside emit, if the hook is mounted.
OnSyncEvent(type) ==
  IF ~mounted THEN isSyncing
  ELSE IF type = "sync-start" THEN TRUE
  ELSE IF type \in {"sync-complete", "sync-error"} THEN FALSE
  ELSE isSyncing

\* processQueue() without the isProcessing guard.
ProcessQueueUnguarded(onl) ==
  IF ~onl
  THEN /\ collapsed' = collapsed
       /\ UNCHANGED <<isProcessing, pc, actions, idx, resp, existing, events,
                      reqs, delays, clean, stopped, isSyncing>>
  ELSE /\ isProcessing' = TRUE
       /\ events' = <<Event("sync-start", NoId, "", getPendingCount)>>
       /\ isSyncing' = OnSyncEvent("sync-start")
       /\ pc' = "load"
       /\ actions' = <<>>
       /\ idx' = 0
       /\ resp' = NoOutcome
       /\ existing' = {}
       /\ reqs' = <<>>
       /\ delays' = <<>>
       /\ clean' = TRUE
       /\ stopped' = ""
       /\ collapsed' = isProcessing

\* The synchronous head of processQueue(), up to its first await
\* (getPendingActions).  onl is navigator.onLine as the call sees it.
ProcessQueue(onl) ==
  IF isProcessing \/ ~onl
  THEN /\ collapsed' = (collapsed \/ isProcessing)
       /\ UNCHANGED <<isProcessing, pc, actions, idx, resp, existing, events,
                      reqs, delays, clean, stopped, isSyncing>>
  ELSE /\ isProcessing' = TRUE
       /\ events' = <<Event("sync-start", NoId, "", getPendingCount)>>
       /\ isSyncing' = OnSyncEvent("sync-start")
       /\ pc' = "load"
       /\ actions' = <<>>
       /\ idx' = 0
       /\ resp' = NoOutcome
       /\ existing' = {}
       /\ reqs' = <<>>
       /\ delays' = <<>>
       /\ clean' = TRUE
       /\ stopped' = ""
       /\ collapsed' = FALSE

\* The end of a pass without its closing event.
EndPassSilent(type) ==
  /\ events' = events
  /\ isSyncing' = OnSyncEvent(type)
  /\ isProcessing' = FALSE
  /\ pc' = "idle"
  /\ actions' = <<>>
  /\ idx' = 0
  /\ resp' = NoOutcome
  /\ existing' = {}
  /\ reqs' = <<>>
  /\ delays' = <<>>
  /\ clean' = FALSE
  /\ stopped' = ""
  /\ collapsed' = FALSE

\* The end of a pass: the closing event (sync-complete with the count, or
\* sync-error), then `finally { this.isProcessing = false }`; the ghosts of
\* the pass are reset with it.
EndPass(type) ==
  /\ events' = Append(events, Event(type, NoId, "", getPendingCount))
  /\ isSyncing' = OnSyncEvent(type)
  /\ isProcessing' = FALSE
  /\ pc' = "idle"
  /\ actions' = <<>>
  /\ idx' = 0
  /\ resp' = NoOutcome
  /\ existing' = {}
  /\ reqs' = <<>>
  /\ delays' = <<>>
  /\ clean' = FALSE
  /\ stopped' = ""
  /\ collapsed' = FALSE

\* An awaited store operation of the pass rejects: the outer catch emits
\* sync-error and the finally resets isProcessing.
Abort ==
  /\ EndPass("sync-error")
  /\ UNCHANGED <<log, timers>>

\* The top of the for loop without `if (!navigator.onLine) break`.
LoopTopNoOnlineCheck(acts, i) ==
  IF i > Len(acts)
  THEN /\ pc' = "count"
       /\ UNCHANGED <<reqs, stopped>>
  ELSE /\ pc' = "fetch"
       /\ reqs' = Append(reqs, acts[i].id)
       /\ stopped' = stopped

\* The top of the for loop, reached without an await from the statement
\* before it: the array is exhausted (on to getPendingCount), or
\* `if (!navigator.onLine) break`, or executeAction issues the fetch of
\* acts[i] and the pass is suspended on it.
LoopTop(acts, i) ==
  IF i > Len(acts)
  THEN /\ pc' = "count"
       /\ UNCHANGED <<reqs, stopped>>
  ELSE IF ~online
  THEN /\ pc' = "count"
       /\ stopped' = "offline"
       /\ reqs' = reqs
  ELSE /\ pc' = "fetch"
       /\ reqs' = Append(reqs, acts[i].id)
       /\ stopped' = stopped

\* const actions = await getPendingActions(), then the first iteration.
Load ==
  /\ pc = "load"
  /\ IF dbOk
     THEN /\ actions' = getPendingActions
          /\ idx' = 1
          /\ LoopTop(getPendingActions, 1)
          /\ UNCHANGED <<log, timers, isProcessing, resp, existing, events,
                         delays, clean, collapsed, isSyncing>>
     ELSE Abort
  /\ UNCHANGED <<online, now, nextSeq, enqWaiting>>
  /\ UNCHANGED clientVars

\* handleRetry comparing with > instead of >=.
ExhaustedLate(action) == action.retryCount > MAX_RETRIES

\* Whether handleRetry gives the action up.
Exhausted(action) == action.retryCount >= MAX_RETRIES

\* removePendingAction(action.id) and on to the next iteration, without emit.
SettleSilent(action, type, error) ==
  /\ log' = removePendingAction(action.id)
  /\ events' = events
  /\ idx' = idx + 1
  /\ LoopTop(actions, idx + 1)
  /\ existing' = existing

\* removePendingAction(action.id), emit, and on to the next iteration.
Settle(action, type, error) ==
  /\ log' = removePendingAction(action.id)
  /\ events' = Append(events, Event(type, action.id, error, Cardinality(log')))
  /\ idx' = idx + 1
  /\ LoopTop(actions, idx + 1)
  /\ existing' = existing

\* The awaited fetch settles with outcome o and the loop body runs on: a
\* removal with its event and the next iteration, the break of the catch,
\* or the head of handleRetry (removal at MAX_RETRIES, else the db.get of
\* updatePendingAction, whose db.put is a later step).  With the database
\* gone the store operation rejects, and so does the one handleRetry makes
\* from the catch: the pass ends in the outer catch.
Responded(o) ==
  /\ pc = "fetch"
  /\ IF ~dbOk /\ Classify(o) # "break"
     THEN Abort
     ELSE
       /\ resp' = o
       /\ clean' = (clean /\ Classify(o) = "complete")
       /\ LET action == actions[idx]
              c == Classify(o)
          IN CASE c = "complete" -> Settle(action, "action-complete", "")
               [] c = "conflict" -> Settle(action, "action-error", "Conflict")
               [] c = "clientError" ->
                    Settle(action, "action-error", "Client error")
               [] c = "break" ->
                    /\ pc' = "count"
                    /\ stopped' = "network"
                    /\ UNCHANGED <<log, events, idx, existing, reqs>>
               [] c = "retry" /\ Exhausted(action) ->
                    Settle(action, "action-error", "Max retries exceeded")
               [] c = "retry" /\ ~Exhausted(action) ->
                    /\ existing' = { a \in log : a.id = action.id }
                    /\ pc' = "retryPut"
                    /\ UNCHANGED <<log, events, idx, stopped, reqs>>
       /\ UNCHANGED <<timers, isProcessing, actions, delays, collapsed,
                      isSyncing>>
  /\ UNCHANGED <<online, now, nextSeq, enqWaiting>>

Respond(o) == Responded(o) /\ UNCHANGED clientVars

\* The rest of handleRetry: the db.put of updatePendingAction (only if the
\* get found the record), setTimeout(() => this.processQueue(), delay), and
\* on to the next iteration.
RetryPut ==
  /\ pc = "retryPut"
  /\ IF ~dbOk
     THEN Abort
     ELSE
       /\ timers < MaxTimers
       /\ LET action == actions[idx]
          IN /\ log' = IF existing = {} THEN log
                       ELSE LET e == CHOOSE e \in existing : TRUE
                            IN PutAction([e EXCEPT
                                      !.retryCount = action.retryCount + 1,
                                      !.lastError = ErrorText(resp)])
             /\ delays' = Append(delays, RetryDelay(action.retryCount))
       /\ timers' = timers + 1
       /\ existing' = {}
       /\ idx' = idx + 1
       /\ LoopTop(actions, idx + 1)
       /\ UNCHANGED <<isProcessing, actions, resp, events, clean, collapsed,
                      isSyncing>>
  /\ UNCHANGED <<online, now, nextSeq, enqWaiting>>
  /\ UNCHANGED clientVars

\* const pendingCount = await getPendingCount(); emit sync-complete (or, if
\* the count rejects, sync-error from the outer catch); finally
\* isProcessing = false.
Finished ==
  /\ pc = "count"
  /\ IF dbOk THEN EndPass("sync-complete") ELSE EndPass("sync-error")
  /\ UNCHANGED <<online, now, log, nextSeq, enqWaiting, timers>>

Finish == Finished /\ UNCHANGED clientVars

\* --------------------------------------------------------------- enqueue
\* The action enqueue() builds, as if it had been tried once already.
NewActionRetried(type, t, rnd) ==
  [id |-> <<t, rnd>>, type |-> type, createdAt |-> t, retryCount |-> 1,
   lastError |-> "error", seq |-> nextSeq]

\* The action enqueue() builds: id from ulid(), createdAt from Date.now(),
\* retryCount 0, no lastError.  type stands for the call's type, endpoint,
\* method and payload, which are stored as given; seq is the rank of the
\* call among all enqueue calls.
NewAction(type, t, rnd) ==
  [id |-> <<t, rnd>>, type |-> type, createdAt |-> t, retryCount |-> 0,
   lastError |-> "", seq |-> nextSeq]

\* enqueue() up to its await: builds the action and puts it into the store
\* (if the store rejects, enqueue rejects and nothing is changed).
EnqueuePut(type, t, rnd) ==
  /\ ~online
  /\ dbOk
  /\ nextSeq <= MaxActions
  /\ enqWaiting < MaxWaiting
  /\ t >= now
  /\ <<t, rnd>> \notin Ids(log) \cup { actions[i].id : i \in DOMAIN actions }
  /\ now' = t
  /\ log' = PutAction(NewAction(type, t, rnd))
  /\ nextSeq' = nextSeq + 1
  /\ enqWaiting' = enqWaiting + 1
  /\ UNCHANGED <<online, timers>>
  /\ UNCHANGED passVars

\* enqueue(), called by the mutation hooks only when !navigator.onLine.
Enqueue(type, t, rnd) ==
  /\ EnqueuePut(type, t, rnd)
  /\ UNCHANGED clientVars

\* enqueue() resumes after `await addPendingAction(action)`.
EnqueueResumed ==
  /\ enqWaiting > 0
  /\ enqWaiting' = enqWaiting - 1
  /\ IF online THEN ProcessQueue(online) ELSE UNCHANGED passVars
  /\ UNCHANGED <<online, now, log, nextSeq, timers>>

EnqueueResume ==
  /\ EnqueueResumed
  /\ UNCHANGED clientVars

\* ---------------------------------------------------------- environment
\* Browser "online" event: navigator.onLine is already true when the
\* listener registered by sync-queue.ts calls processQueue(); handleOnline
\* of useOnlineStatus, if its effect has registered it, sets isOnline.
GoOnline ==
  /\ ~online
  /\ online' = TRUE
  /\ ProcessQueue(TRUE)
  /\ hookOnline' = IF mounted THEN TRUE ELSE hookOnline
  /\ UNCHANGED <<now, log, nextSeq, enqWaiting, timers>>
  /\ UNCHANGED <<dbOk, mounted, dataVars, countVars, backendVars>>

\* Browser "offline" event: handleOffline of useOnlineStatus.
GoOffline ==
  /\ online
  /\ online' = FALSE
  /\ clean' = FALSE
  /\ hookOnline' = IF mounted THEN FALSE ELSE hookOnline
  /\ UNCHANGED <<now, log, nextSeq, enqWaiting, timers, isProcessing, pc,
                 actions, idx, resp, existing, events, reqs, delays,
                 stopped, collapsed, isSyncing>>
  /\ UNCHANGED <<dbOk, mounted, dataVars, countVars, backendVars>>

\* A retry timer set by handleRetry fires.
TimerFire ==
  /\ timers > 0
  /\ timers' = timers - 1
  /\ ProcessQueue(online)
  /\ UNCHANGED <<online, now, log, nextSeq, enqWaiting>>
  /\ UNCHANGED clientVars

\* useOnlineStatus.triggerSync: if (isOnline) syncQueue.processQueue().
TriggerSync ==
  /\ online
  /\ ProcessQueue(online)
  /\ UNCHANGED <<online, now, log, nextSeq, enqWaiting, timers>>
  /\ UNCHANGED clientVars

\* onSuccess of loginMutation: await clearAllData(), then processQueue().
Login ==
  /\ online
  /\ dbOk
  /\ log' = clearAllData
  /\ dbLists' = {}
  /\ dbItems' = {}
  /\ ProcessQueue(online)
  /\ UNCHANGED <<online, now, nextSeq, enqWaiting, timers>>
  /\ UNCHANGED <<dbOk, mounted, otherVars, qLists, qItems, muts, txOrder,
                 nextUlid,
                 srvLists, invalidated, queryVars>>

\* onSuccess of registerMutation and of logoutMutation: await clearAllData().
RegisterOrLogout ==
  /\ online
  /\ dbOk
  /\ log' = clearAllData
  /\ dbLists' = {}
  /\ dbItems' = {}
  /\ UNCHANGED <<online, now, nextSeq, enqWaiting, timers>>
  /\ UNCHANGED passVars
  /\ UNCHANGED <<dbOk, mounted, otherVars, qLists, qItems, muts, txOrder,
                 nextUlid,
                 srvLists, invalidated, queryVars>>

Next ==
  \/ Load
  \/ \E o \in Outcomes : Respond(o)
  \/ RetryPut
  \/ Finish
  \/ \E ty \in ActionTypes, t \in 0..MaxClock, r \in 1..MaxRand :
       Enqueue(ty, t, r)
  \/ EnqueueResume
  \/ GoOnline
  \/ GoOffline
  \/ TimerFire
  \/ TriggerSync
  \/ Login
  \/ RegisterOrLogout

Spec == Init /\ [][Next]_vars

\* Fairness: a handler that can run does run, a request is answered and a
\* timer fires.  Nothing forces the user or the network to act.
LiveSpec ==
  /\ Spec
  /\ WF_vars(Load)
  /\ WF_vars(\E o \in Outcomes : Respond(o))
  /\ WF_vars(RetryPut)
  /\ WF_vars(Finish)
  /\ WF_vars(EnqueueResume)
  /\ WF_vars(TimerFire)

\* ------------------------------------------------- the status hook, faults
\* OfflineIndicator is rendered by RootLayout only once the session is
\* known and the backend reachable: the effect of its useOnlineStatus
\* subscribes when it mounts, with isSyncing starting at false and isOnline
\* at navigator.onLine.
Mount ==
  /\ ~mounted
  /\ mounted' = TRUE
  /\ isSyncing' = FALSE
  /\ hookOnline' = online
  /\ UNCHANGED <<online, now, log, nextSeq, enqWaiting, timers, isProcessing,
                 pc, actions, idx, resp, existing, events, reqs, delays,
                 clean, stopped, collapsed, dbOk, dataVars, countVars,
                 backendVars>>

\* The cleanup of the effect unsubscribes; the state of the hook is gone.
Unmount ==
  /\ mounted
  /\ mounted' = FALSE
  /\ isSyncing' = FALSE
  /\ hookOnline' = FALSE
  /\ UNCHANGED <<online, now, log, nextSeq, enqWaiting, timers, isProcessing,
                 pc, actions, idx, resp, existing, events, reqs, delays,
                 clean, stopped, collapsed, dbOk, dataVars, countVars,
                 backendVars>>

\* The database becomes unusable: from here on getDB() or the operation on
\* it rejects.
BreakStore ==
  /\ dbOk
  /\ dbOk' = FALSE
  /\ UNCHANGED <<online, now, log, nextSeq, enqWaiting, timers, mounted,
                 dataVars, otherVars>>
  /\ UNCHANGED passVars

\* A page load: the store may be unusable from the start, the hook not yet
\* mounted.
HookInit ==
  /\ online \in BOOLEAN
  /\ now = 0
  /\ log = {}
  /\ nextSeq = 1
  /\ enqWaiting = 0
  /\ timers = 0
  /\ isProcessing = FALSE
  /\ pc = "idle"
  /\ actions = <<>>
  /\ idx = 0
  /\ resp = NoOutcome
  /\ existing = {}
  /\ events = <<>>
  /\ reqs = <<>>
  /\ delays = <<>>
  /\ clean = FALSE
  /\ stopped = ""
  /\ collapsed = FALSE
  /\ dbOk \in BOOLEAN
  /\ mounted \in BOOLEAN
  /\ OtherIdle
  /\ isSyncing = FALSE
  /\ ClientIdle

\* The sync queue with the hook mounting and unmounting and the store
\* failing; one action type and one clock value are enough here.
HookNext ==
  \/ Load
  \/ \E o \in Outcomes : Respond(o)
  \/ RetryPut
  \/ Finish
  \/ \E r \in 1..MaxRand : Enqueue("list.create", 0, r)
  \/ EnqueueResume
  \/ GoOnline
  \/ GoOffline
  \/ TimerFire
  \/ TriggerSync
  \/ Login
  \/ RegisterOrLogout
  \/ Mount
  \/ Unmount
  \/ BreakStore

HookSpec == HookInit /\ [][HookNext]_vars

\* ------------------------------------------------- optimistic mutations
\* The calls the screens make on the mutations of useLists and of
\* useItems(listId): kind names the mutation by the type it enqueues.
Requests ==
  { Request("list.create", 0, "new", 0, 0, <<>>),
    Request("list.update", 1, "renamed", 0, 0, <<>>),
    Request("list.delete", 1, "", 0, 0, <<>>),
    Request("item.create", 0, "", 0, 1, <<>>),
    Request("item.create", 0, "", 3, 2, <<>>),
    Request("item.update", 1, "", 5, 1, <<>>),
    Request("item.toggle", 1, "", 0, 0, <<>>),
    Request("item.toggle", 2, "", 0, 0, <<>>),
    Request("item.delete", 1, "", 0, 0, <<>>),
    Request("item.reorder", 0, "", 0, 0, <<2, 1>>) }

ListKinds == {"list.create", "list.update", "list.delete"}
ItemKinds == {"item.create", "item.update", "item.toggle", "item.delete",
              "item.reorder"}

Slots == 1..MaxMutations

\* !item?.checked for the item found in an array that may be undefined.
NotChecked(s, id) ==
  IF FindById(s, id) = {} THEN TRUE
  ELSE ~(CHOOSE x \in FindById(s, id) : TRUE).checked

\* reorderMutation.onMutate: the items of previousItems named by itemIds,
\* in that order, with sortOrder their index; unknown ids are dropped.
RECURSIVE Reordered(_, _, _)
Reordered(ids, prev, index) ==
  IF ids = <<>> THEN <<>>
  ELSE LET f == FindById(prev, Head(ids))
       IN  (IF f = {} THEN <<>>
            ELSE <<[(CHOOSE x \in f : TRUE) EXCEPT !.sortOrder = index]>>)
           \o Reordered(Tail(ids), prev, index + 1)

\* setQueryData(["lists"], ...) of onMutate, for the call r made with the
\* caches old (["lists"]) and its (["lists", listId, "items"]).
OptimisticLists(r, vid, old, its) ==
  CASE r.kind = "list.create" ->
         Cached(<<ListRec(vid, r.name, 1, 0, 0, 0)>> \o old.data)
    [] r.kind = "list.update" ->
         Cached(Map(old.data, LAMBDA l :
           IF l.id = r.id THEN [l EXCEPT !.name = r.name] ELSE l))
    [] r.kind = "list.delete" ->
         Cached(SelectSeq(old.data, LAMBDA l : l.id # r.id))
    [] r.kind = "item.create" /\ old.loaded ->
         Cached(Map(old.data, LAMBDA l :
           IF l.id = listId
           THEN [l EXCEPT !.totalItems = @ + 1,
                          !.totalPrice = @ + r.price * r.quantity]
           ELSE l))
    [] r.kind = "item.toggle" /\ old.loaded ->
         Cached(Map(old.data, LAMBDA l :
           IF l.id = listId
           THEN [l EXCEPT !.checkedItems =
                   IF NotChecked(its.data, r.id) THEN @ + 1 ELSE @ - 1]
           ELSE l))
    [] r.kind = "item.delete" /\ old.loaded
         /\ FindById(its.data, r.id) # {} ->
         LET deletedItem == CHOOSE x \in FindById(its.data, r.id) : TRUE
         IN  Cached(Map(old.data, LAMBDA l :
               IF l.id = listId
               THEN [l EXCEPT !.totalItems = @ - 1,
                              !.checkedItems =
                                IF deletedItem.checked THEN @ - 1 ELSE @,
                              !.totalPrice =
                                @ - deletedItem.price * deletedItem.quantity]
               ELSE l))
    [] OTHER -> old

\* setQueryData(["lists", listId, "items"], ...) of onMutate.
OptimisticItems(r, vid, old) ==
  CASE r.kind = "item.create" ->
         Cached(Append(old.data,
                       ItemRec(vid, listId, FALSE, r.price, r.quantity,
                               Len(old.data), 1)))
    [] r.kind = "item.update" ->
         Cached(Map(old.data, LAMBDA i :
           IF i.id = r.id
           THEN [i EXCEPT !.price = r.price, !.quantity = r.quantity]
           ELSE i))
    [] r.kind = "item.toggle" ->
         Cached(Map(old.data, LAMBDA i :
           IF i.id = r.id
           THEN [i EXCEPT !.checked = NotChecked(old.data, r.id)]
           ELSE i))
    [] r.kind = "item.delete" ->
         Cached(SelectSeq(old.data, LAMBDA i : i.id # r.id))
    [] r.kind = "item.reorder" ->
         Cached(Reordered(r.order, old.data, 0))
    [] OTHER -> old

\* The queries a key given to cancelQueries or invalidateQueries matches:
\* ["lists"] is a prefix of the items key.
CancelledBy(kind) == IF kind \in ListKinds THEN Keys ELSE {"items"}
InvalidatedBy(kind) == IF kind = "item.reorder" THEN {"items"} ELSE Keys

\* mutate(): onMutate calls cancelQueries, which detaches the queryFn calls
\* in progress from their queries, and waits for it.  The mutation is
\* pending: the hook renders again (as it does whenever the mutation or a
\* cache changes) and reads navigator.onLine.
Mutate(s, r) ==
  /\ muts[s].pc = "idle"
  /\ \A t \in 1..(s - 1) : muts[t].pc # "idle"
  /\ muts' = [muts EXCEPT ![s] = [NoMutation EXCEPT !.pc = "onMutate",
                                                     !.req = r]]
  /\ fetches' = [k \in Keys |->
       IF k \in CancelledBy(r.kind) /\ fetches[k].pc # "idle"
       THEN [fetches[k] EXCEPT !.cancelled = TRUE] ELSE fetches[k]]
  /\ isOnline' = online
  /\ UNCHANGED <<qLists, qItems, dbLists, dbItems, txOrder, nextUlid,
                 srvLists, invalidated, qError>>
  /\ UNCHANGED <<online, now, log, nextSeq, enqWaiting, timers, dbOk, mounted,
                 otherVars>>
  /\ UNCHANGED passVars

\* onMutate after cancelQueries: the snapshot, then the transform of the
\* items and of the lists.  The list mutations keep previousLists, the item
\* mutations previousItems and, for create, toggle and delete, lists.
OnMutate(s) ==
  LET m == muts[s]
      r == m.req
      vid == ulid(nextUlid)
  IN  /\ m.pc = "onMutate"
      /\ qItems' = OptimisticItems(r, vid, qItems)
      /\ qLists' = OptimisticLists(r, vid, qLists, qItems)
      /\ muts' = [muts EXCEPT ![s] =
           [m EXCEPT
              !.pc = "fn",
              !.viewId = IF r.kind \in {"list.create", "item.create"}
                         THEN vid ELSE 0,
              !.previousLists = IF r.kind \in ListKinds
                                THEN qLists ELSE Undefined,
              !.previousItems = IF r.kind \in ItemKinds
                                THEN qItems ELSE Undefined,
              !.lists = IF r.kind \in {"item.create", "item.toggle",
                                       "item.delete"}
                        THEN qLists ELSE Undefined,
              !.newChecked = NotChecked(qItems.data, r.id),
              !.sortOrder = Len(qItems.data)]]
      /\ nextUlid' = IF r.kind \in {"list.create", "item.create"}
                     THEN nextUlid + 1 ELSE nextUlid
      /\ isOnline' = online
      /\ UNCHANGED <<dbLists, dbItems, txOrder, srvLists, invalidated, fetches,
                     qError>>
      /\ UNCHANGED <<online, now, log, nextSeq, enqWaiting, timers, dbOk,
                     mounted, otherVars>>
      /\ UNCHANGED passVars

\* ---------------------------------------- mirror: order of transactions
\* Every call on the mirror is one IndexedDB transaction on one store,
\* created when the caller reaches it, that is when its previous await
\* resumes.  Transactions on the same store of which one is readwrite run
\* in the order of their creation; read-only ones run in any order.
PendingRequest(m) ==
  CASE m.pc = "write" ->
         [store |-> IF m.req.kind \in ListKinds THEN "lists" ELSE "items",
          rw |-> TRUE]
    [] m.pc = "get" ->
         [store |-> IF m.req.kind \in ListKinds THEN "lists" ELSE "items",
          rw |-> FALSE]
    [] m.pc = "put" ->
         [store |-> IF m.req.kind \in ListKinds THEN "lists" ELSE "items",
          rw |-> TRUE]
    [] m.pc = "listItems" -> [store |-> "items", rw |-> FALSE]
    [] m.pc = "deleteItems" -> [store |-> "items", rw |-> TRUE]
    [] m.pc = "countItems" -> [store |-> "items", rw |-> FALSE]
    [] m.pc = "countList" -> [store |-> "lists", rw |-> FALSE]
    [] m.pc = "countPut" -> [store |-> "lists", rw |-> TRUE]
    [] OTHER -> [store |-> "", rw |-> FALSE]

Conflicting(a, b) == a.store = b.store /\ (a.rw \/ b.rw)

\* The request a queryFn call is waiting for: the index read of getLists
\* or getItems, the read of setItems, the transaction of setLists or
\* setItems.
FetchRequest(f, k) ==
  CASE f.pc = "read" -> [store |-> k, rw |-> FALSE]
    [] f.pc = "existing" -> [store |-> "items", rw |-> FALSE]
    [] f.pc = "store" -> [store |-> k, rw |-> TRUE]
    [] OTHER -> [store |-> "", rw |-> FALSE]

\* The callers of the mirror: the mutation slots, then the two queries.
Owner(k) == MaxMutations + (IF k = "lists" THEN 1 ELSE 2)
KeyOf(o) == IF o = MaxMutations + 1 THEN "lists" ELSE "items"

PendingOf(o, ms, fs) ==
  IF o \in 1..MaxMutations THEN PendingRequest(ms[o])
  ELSE FetchRequest(fs[KeyOf(o)], KeyOf(o))

\* The request of caller o may run: no older pending request conflicts.
CanRun(o) ==
  \A k \in 1..Len(txOrder) :
    (\E j \in (k + 1)..Len(txOrder) : txOrder[j] = o) =>
      ~Conflicting(PendingOf(txOrder[k], muts, fetches),
                   PendingOf(o, muts, fetches))

\* The request of caller o is done; the one it creates next, if any, is
\* the youngest.
NextRequest(o) ==
  txOrder' = SelectSeq(txOrder, LAMBDA t : t # o)
             \o (IF PendingOf(o, muts', fetches').store # "" THEN <<o>>
                 ELSE <<>>)

\* What changes no step of a mutation that touches neither the queue nor
\* the server.
MutationFrame ==
  /\ UNCHANGED <<online, now, log, nextSeq, enqWaiting, timers, dbOk, mounted,
                 otherVars>>
  /\ UNCHANGED passVars
  /\ UNCHANGED <<nextUlid, srvLists, invalidated>>
  /\ UNCHANGED queryVars

\* A step of the offline branch of mutationFn.  When it was the last one
\* the mutation succeeds: the hook renders again and onSettled invalidates
\* the queries if navigator.onLine.
MirrorFrame(s) ==
  /\ UNCHANGED <<online, now, log, nextSeq, enqWaiting, timers, dbOk, mounted,
                 otherVars>>
  /\ UNCHANGED passVars
  /\ UNCHANGED <<nextUlid, srvLists, fetches, qError>>
  /\ IF muts'[s].pc = "done"
     THEN /\ isOnline' = online
          /\ invalidated' = IF online
                            THEN invalidated \cup InvalidatedBy(muts[s].req.kind)
                            ELSE invalidated
     ELSE UNCHANGED <<invalidated, isOnline>>

\* The server's answer to a successful call: create assigns the id and
\* version 1, update bumps the version, delete removes the list; the items
\* of the server are not modelled.
ServerApply(r, srv) ==
  CASE r.kind = "list.create" ->
         srv \cup { ListRec(CHOOSE i \in 1..MaxServerId :
                              /\ i \notin { l.id : l \in srv }
                              /\ \A j \in 1..(i - 1) : j \in { l.id : l \in srv },
                            r.name, 1, 0, 0, 0) }
    [] r.kind = "list.update" ->
         { IF l.id = r.id
           THEN [l EXCEPT !.name = r.name, !.version = @ + 1] ELSE l
           : l \in srv }
    [] r.kind = "list.delete" -> { l \in srv : l.id # r.id }
    [] OTHER -> srv

\* mutationFn while navigator.onLine: the api call is issued.
DispatchOnline(s) ==
  /\ muts[s].pc = "fn"
  /\ online
  /\ muts' = [muts EXCEPT ![s].pc = "api"]
  /\ UNCHANGED <<qLists, qItems, dbLists, dbItems, txOrder>>
  /\ MutationFrame

\* The call succeeds: onSuccess is not defined, onSettled invalidates.
ApiOk(s) ==
  /\ muts[s].pc = "api"
  /\ Cardinality(srvLists) < MaxServerId
  /\ srvLists' = ServerApply(muts[s].req, srvLists)
  /\ invalidated' = IF online
                    THEN invalidated \cup InvalidatedBy(muts[s].req.kind)
                    ELSE invalidated
  /\ muts' = [muts EXCEPT ![s].pc = "settled"]
  /\ isOnline' = online
  /\ UNCHANGED <<qLists, qItems, dbLists, dbItems, txOrder, nextUlid, fetches,
                 qError>>
  /\ UNCHANGED <<online, now, log, nextSeq, enqWaiting, timers, dbOk, mounted,
                 otherVars>>
  /\ UNCHANGED passVars

\* onError: each snapshot of the context is put back if it is truthy (an
\* array, empty or not; undefined is not).
RestoredLists(m, cur) ==
  IF m.previousLists.loaded THEN m.previousLists
  ELSE IF m.lists.loaded THEN m.lists
  ELSE cur

RestoredItems(m, cur) ==
  IF m.previousItems.loaded THEN m.previousItems ELSE cur

\* mutationFn has thrown: onError, then onSettled.
Failed(s) ==
  /\ qLists' = RestoredLists(muts[s], qLists)
  /\ qItems' = RestoredItems(muts[s], qItems)
  /\ invalidated' = IF online
                    THEN invalidated \cup InvalidatedBy(muts[s].req.kind)
                    ELSE invalidated
  /\ muts' = [muts EXCEPT ![s].pc = "failed"]
  /\ isOnline' = online
  /\ UNCHANGED <<dbLists, dbItems, txOrder, nextUlid, srvLists, fetches,
                 qError>>
  /\ UNCHANGED <<online, now, log, nextSeq, enqWaiting, timers, dbOk, mounted,
                 otherVars>>
  /\ UNCHANGED passVars

\* The direct call fails (status not 2xx, or the network).
ApiFail(s) ==
  /\ muts[s].pc = "api"
  /\ Failed(s)

\* mutationFn while !navigator.onLine with a database that does not open:
\* addPendingAction rejects, so does enqueue, and mutationFn throws.
EnqueueRejected(s) ==
  /\ muts[s].pc = "fn"
  /\ ~online
  /\ ~dbOk
  /\ Failed(s)

\* mutationFn while !navigator.onLine: syncQueue.enqueue(...) is called and
\* puts the action; mutationFn waits for it.  createMutation has drawn its
\* own ulid() for the entity it will store.
DispatchOffline(s, rnd) ==
  LET m == muts[s]
      creates == m.req.kind \in {"list.create", "item.create"}
  IN  /\ m.pc = "fn"
      /\ EnqueuePut(m.req.kind, now, rnd)
      /\ muts' = [muts EXCEPT ![s].pc = "enqueue",
                              ![s].mirrorId =
                                 IF creates THEN ulid(nextUlid) ELSE 0]
      /\ nextUlid' = IF creates THEN nextUlid + 1 ELSE nextUlid
      /\ UNCHANGED <<qLists, qItems, dbLists, dbItems, txOrder, srvLists,
                     invalidated, dbOk, mounted, otherVars>>
      /\ UNCHANGED queryVars

\* The pc after the await of enqueue, and after an updateItem/updateList.
FirstWrite(kind) ==
  IF kind \in {"list.update", "item.update", "item.toggle", "item.reorder"}
  THEN "get" ELSE "write"

\* enqueue() returns to mutationFn.
EnqueueReturn(s) ==
  /\ muts[s].pc = "enqueue"
  /\ EnqueueResumed
  /\ muts' = [muts EXCEPT ![s].pc = FirstWrite(muts[s].req.kind),
                          ![s].k = 1]
  /\ NextRequest(s)
  /\ UNCHANGED <<qLists, qItems, dbLists, dbItems, nextUlid, srvLists,
                 invalidated, dbOk, mounted, otherVars>>
  /\ UNCHANGED queryVars

\* The single request of addList, addItem and deleteItem, and the first of
\* deleteList.
MirrorWrite(s) ==
  LET m == muts[s]
      r == m.req
  IN  /\ m.pc = "write"
      /\ CanRun(s)
      /\ dbLists' =
           CASE r.kind = "list.create" ->
                  Put(dbLists, ListRec(m.mirrorId, r.name, 1, 0, 0, 0))
             [] r.kind = "list.delete" -> Delete(dbLists, r.id)
             [] OTHER -> dbLists
      /\ dbItems' =
           CASE r.kind = "item.create" ->
                  Put(dbItems, ItemRec(m.mirrorId, listId, FALSE, r.price,
                                       r.quantity, m.sortOrder, 1))
             [] r.kind = "item.delete" -> Delete(dbItems, r.id)
             [] OTHER -> dbItems
      /\ muts' = [muts EXCEPT ![s].pc =
           CASE r.kind = "list.create" -> "done"
             [] r.kind = "list.delete" -> "listItems"
             [] OTHER -> "countItems"]
      /\ UNCHANGED <<qLists, qItems>>
      /\ NextRequest(s)
      /\ MirrorFrame(s)

\* deleteList: the items of the list are read ...
ListItems(s) ==
  /\ muts[s].pc = "listItems"
  /\ CanRun(s)
  /\ muts' = [muts EXCEPT ![s].pc = "deleteItems",
                          ![s].items = ByList(dbItems, muts[s].req.id)]
  /\ UNCHANGED <<qLists, qItems, dbLists, dbItems>>
  /\ NextRequest(s)
  /\ MirrorFrame(s)

\* ... and deleted by id in one transaction.
DeleteItems(s) ==
  /\ muts[s].pc = "deleteItems"
  /\ CanRun(s)
  /\ dbItems' = { i \in dbItems : i.id \notin { x.id : x \in muts[s].items } }
  /\ muts' = [muts EXCEPT ![s].pc = "done", ![s].items = {}]
  /\ UNCHANGED <<qLists, qItems, dbLists>>
  /\ NextRequest(s)
  /\ MirrorFrame(s)

\* The id updateList or updateItem is called with: the list, the item, or
\* the k-th id of the reorder.
Target(m) ==
  IF m.req.kind = "item.reorder" THEN m.req.order[m.k] ELSE m.req.id

\* The pc after updateList/updateItem has returned.
AfterUpdate(m) ==
  CASE m.req.kind = "list.update" -> "done"
    [] m.req.kind = "item.reorder" ->
         IF m.k < Len(m.req.order) THEN "get" ELSE "done"
    [] OTHER -> "countItems"

\* updateList and updateItem: db.get of the existing record; nothing is
\* put if there is none.
MirrorGet(s) ==
  LET m == muts[s]
      f == IF m.req.kind = "list.update" THEN Get(dbLists, Target(m))
           ELSE Get(dbItems, Target(m))
  IN  /\ m.pc = "get"
      /\ CanRun(s)
      /\ muts' = [muts EXCEPT
           ![s].pc = IF f = {} THEN AfterUpdate(m) ELSE "put",
           ![s].found = f,
           ![s].k = IF f = {} /\ m.req.kind = "item.reorder" THEN m.k + 1
                    ELSE m.k]
      /\ UNCHANGED <<qLists, qItems, dbLists, dbItems>>
      /\ NextRequest(s)
      /\ MirrorFrame(s)

\* { ...existing, ...updates }
Merged(m, e) ==
  CASE m.req.kind = "list.update" -> [e EXCEPT !.name = m.req.name]
    [] m.req.kind = "item.update" ->
         [e EXCEPT !.price = m.req.price, !.quantity = m.req.quantity]
    [] m.req.kind = "item.toggle" -> [e EXCEPT !.checked = m.newChecked]
    [] OTHER -> [e EXCEPT !.sortOrder = m.k - 1]

\* updateList and updateItem: db.put of the merged record.
MirrorPut(s) ==
  LET m == muts[s]
      e == CHOOSE x \in m.found : TRUE
  IN  /\ m.pc = "put"
      /\ CanRun(s)
      /\ IF m.req.kind = "list.update"
         THEN dbLists' = Put(dbLists, Merged(m, e)) /\ dbItems' = dbItems
         ELSE dbItems' = Put(dbItems, Merged(m, e)) /\ dbLists' = dbLists
      /\ muts' = [muts EXCEPT
           ![s].pc = AfterUpdate(m),
           ![s].found = {},
           ![s].k = IF m.req.kind = "item.reorder" THEN m.k + 1 ELSE m.k]
      /\ UNCHANGED <<qLists, qItems>>
      /\ NextRequest(s)
      /\ MirrorFrame(s)

\* updateListCounts: the items of the list are read ...
CountItems(s) ==
  /\ muts[s].pc = "countItems"
  /\ CanRun(s)
  /\ muts' = [muts EXCEPT ![s].pc = "countList",
                          ![s].items = ByList(dbItems, listId)]
  /\ UNCHANGED <<qLists, qItems, dbLists, dbItems>>
  /\ NextRequest(s)
  /\ MirrorFrame(s)

\* ... then the list ...
CountList(s) ==
  /\ muts[s].pc = "countList"
  /\ CanRun(s)
  /\ muts' = [muts EXCEPT
       ![s].pc = IF Get(dbLists, listId) = {} THEN "done" ELSE "countPut",
       ![s].found = Get(dbLists, listId),
       ![s].items = IF Get(dbLists, listId) = {} THEN {} ELSE muts[s].items]
  /\ UNCHANGED <<qLists, qItems, dbLists, dbItems>>
  /\ NextRequest(s)
  /\ MirrorFrame(s)

\* ... and the list is put with the aggregates of the items read.
CountPut(s) ==
  LET m == muts[s]
  IN  /\ m.pc = "countPut"
      /\ CanRun(s)
      /\ dbLists' = Put(dbLists,
                        WithCounts(CHOOSE x \in m.found : TRUE, m.items))
      /\ muts' = [muts EXCEPT ![s].pc = "done", ![s].found = {},
                              ![s].items = {}]
      /\ UNCHANGED <<qLists, qItems, dbItems>>
      /\ NextRequest(s)
      /\ MirrorFrame(s)

\* ------------------------------------------------------------ the queries
\* The cache of a key.
CacheOf(k) == IF k = "lists" THEN qLists ELSE qItems

\* getLists() and getItems(listId) on a database that opens: what the
\* index returns.  (The order by updatedAt is not modelled.)
getLists == AsSeq(dbLists)
getItems(lid) == AsSeq(ByList(dbItems, lid))
MirrorData(k) == IF k = "lists" THEN getLists ELSE getItems(listId)

\* store.put of every element of an array.
PutAll(store, V) ==
  { x \in store : x.id \notin { v.id : v \in Elems(V) } } \cup Elems(V)

\* setLists(V): one transaction that clears the store and puts V.
setLists(V) == PutAll({}, V)

\* A setItems that puts the new items without deleting the old ones.
setItemsKeeping(store, old, V) == PutAll(store, V)

\* setItems(listId, V): one transaction that deletes the items read before
\* (old) by id and puts V.
setItems(store, old, V) ==
  PutAll({ x \in store : x.id \notin { o.id : o \in old } }, V)

\* What GET /api/lists/:id/items may answer for listId: the items of the
\* server are not modelled, the list may have no item, or item 2 updated
\* and a new item 4.
ItemResponses ==
  { <<>>,
    <<ItemRec(2, listId, TRUE, 0, 1, 0, 2), ItemRec(4, listId, FALSE, 1, 1, 1, 1)>> }

QueryFrame ==
  /\ UNCHANGED <<online, now, log, nextSeq, enqWaiting, timers, dbOk, mounted,
                 otherVars>>
  /\ UNCHANGED passVars
  /\ UNCHANGED <<muts, nextUlid, srvLists>>

\* queryFn is called with the isOnline (io) of the render it closes over:
\* it reads the mirror, or calls the api.
StartFetch(k, io) ==
  /\ fetches[k].pc = "idle"
  /\ fetches' = [fetches EXCEPT
       ![k] = [NoFetch EXCEPT !.pc = IF io THEN "fetch" ELSE "read"]]
  /\ invalidated' = invalidated \ {k}
  /\ NextRequest(Owner(k))

\* The hook mounts, or the window is focused or the connection comes back
\* with the hook rendered online: the query has no data or may be stale,
\* and is fetched.  (Rendered offline the staleTime is Infinity.)
Refetch(k) ==
  /\ ~CacheOf(k).loaded \/ online
  /\ isOnline' = online
  /\ StartFetch(k, online)
  /\ UNCHANGED <<dbLists, dbItems, qLists, qItems, qError>>
  /\ QueryFrame

\* invalidateQueries refetches the query.
QueryStart(k) ==
  /\ k \in invalidated
  /\ StartFetch(k, isOnline)
  /\ UNCHANGED <<dbLists, dbItems, qLists, qItems, qError, isOnline>>
  /\ QueryFrame

\* api.getLists() / api.getItems(listId) resolves with V.
FetchOk(k, V) ==
  /\ fetches[k].pc = "fetch"
  /\ online
  /\ IF k = "lists" THEN V = AsSeq(srvLists) ELSE V \in ItemResponses
  /\ fetches' = [fetches EXCEPT
       ![k].pc = IF k = "lists" THEN "store" ELSE "existing",
       ![k].data = V]
  /\ NextRequest(Owner(k))
  /\ UNCHANGED <<dbLists, dbItems, qLists, qItems, qError, isOnline,
                 invalidated>>
  /\ QueryFrame

\* The call throws a TypeError whose message contains "fetch": the catch
\* falls back to the mirror.
FetchNetworkError(k) ==
  /\ fetches[k].pc = "fetch"
  /\ fetches' = [fetches EXCEPT ![k].pc = "read"]
  /\ NextRequest(Owner(k))
  /\ UNCHANGED <<dbLists, dbItems, qLists, qItems, qError, isOnline,
                 invalidated>>
  /\ QueryFrame

\* queryFn returns data: the query has it, unless cancelQueries has
\* detached the call; the hook renders.
Resolved(k, data) ==
  /\ fetches' = [fetches EXCEPT ![k] = NoFetch]
  /\ NextRequest(Owner(k))
  /\ IF fetches[k].cancelled
     THEN UNCHANGED <<qLists, qItems, qError, isOnline>>
     ELSE /\ qLists' = IF k = "lists" THEN Cached(data) ELSE qLists
          /\ qItems' = IF k = "items" THEN Cached(data) ELSE qItems
          /\ qError' = qError \ {k}
          /\ isOnline' = online

\* queryFn throws: the query is in error and keeps its data.
Rejected(k) ==
  /\ fetches' = [fetches EXCEPT ![k] = NoFetch]
  /\ NextRequest(Owner(k))
  /\ qError' = IF fetches[k].cancelled THEN qError ELSE qError \cup {k}
  /\ isOnline' = IF fetches[k].cancelled THEN isOnline ELSE online
  /\ UNCHANGED <<qLists, qItems>>

\* The call answers with an error status: the catch rethrows.
FetchHttpError(k) ==
  /\ fetches[k].pc = "fetch"
  /\ online
  /\ Rejected(k)
  /\ UNCHANGED <<dbLists, dbItems, invalidated>>
  /\ QueryFrame

\* setItems: db.getAllFromIndex of the items the mirror has for the list.
QueryExisting(k) ==
  /\ fetches[k].pc = "existing"
  /\ CanRun(Owner(k))
  /\ IF dbOk
     THEN /\ fetches' = [fetches EXCEPT
               ![k].pc = "store", ![k].existing = ByList(dbItems, listId)]
          /\ NextRequest(Owner(k))
          /\ UNCHANGED <<qLists, qItems, qError, isOnline>>
     ELSE Rejected(k)
  /\ UNCHANGED <<dbLists, dbItems, invalidated>>
  /\ QueryFrame

\* setLists / the transaction of setItems, then `return lists`.
QueryStore(k) ==
  /\ fetches[k].pc = "store"
  /\ CanRun(Owner(k))
  /\ IF dbOk
     THEN /\ dbLists' = IF k = "lists" THEN setLists(fetches[k].data)
                        ELSE dbLists
          /\ dbItems' = IF k = "items"
                        THEN setItems(dbItems, fetches[k].existing,
                                      fetches[k].data)
                        ELSE dbItems
          /\ Resolved(k, fetches[k].data)
     ELSE Rejected(k) /\ UNCHANGED <<dbLists, dbItems>>
  /\ UNCHANGED invalidated
  /\ QueryFrame

\* return offlineDB.getLists() / offlineDB.getItems(listId): getDB() and
\* the index read; a rejection is the rejection of queryFn.
QueryRead(k) ==
  /\ fetches[k].pc = "read"
  /\ CanRun(Owner(k))
  /\ IF dbOk THEN Resolved(k, MirrorData(k)) ELSE Rejected(k)
  /\ UNCHANGED <<dbLists, dbItems, invalidated>>
  /\ QueryFrame

\* -------------------------------------------- the mutations, on their own
\* What the server holds when the page is opened.
BaseItems ==
  { ItemRec(1, 1, FALSE, 3, 2, 0, 1), ItemRec(2, 1, TRUE, 0, 1, 1, 1),
    ItemRec(3, 2, FALSE, 2, 1, 0, 1) }

BaseLists ==
  { WithCounts(ListRec(1, "a", 1, 0, 0, 0), ByList(BaseItems, 1)),
    WithCounts(ListRec(2, "b", 1, 0, 0, 0), ByList(BaseItems, 2)) }

\* The screens with the queue idle: each query is not yet loaded, loaded
\* empty or loaded with the server's data; the mirror is empty or holds
\* the last fetch.
MutationInit ==
  /\ online \in BOOLEAN
  /\ now = 0
  /\ log = {}
  /\ nextSeq = 1
  /\ enqWaiting = 0
  /\ timers = 0
  /\ isProcessing = FALSE
  /\ pc = "idle"
  /\ actions = <<>>
  /\ idx = 0
  /\ resp = NoOutcome
  /\ existing = {}
  /\ events = <<>>
  /\ reqs = <<>>
  /\ delays = <<>>
  /\ clean = FALSE
  /\ stopped = ""
  /\ collapsed = FALSE
  /\ dbOk = TRUE
  /\ mounted = TRUE
  /\ OtherIdle
  /\ isSyncing = FALSE
  /\ qLists \in {Undefined, Cached(<<>>), Cached(AsSeq(BaseLists))}
  /\ qItems \in {Undefined, Cached(<<>>),
                 Cached(AsSeq(ByList(BaseItems, listId)))}
  /\ \/ dbLists = {} /\ dbItems = {}
     \/ dbLists = BaseLists /\ dbItems = BaseItems
  /\ muts = NoMutations
  /\ txOrder = <<>>
  /\ nextUlid = 1
  /\ srvLists = BaseLists
  /\ invalidated = {}
  /\ fetches = NoFetches
  /\ qError = {}
  /\ isOnline = online

\* Up to MaxMutations mutations, called at any moment and running
\* concurrently, with the connection as it was when the page was opened.
MutationNext ==
  \/ \E s \in Slots, r \in Requests : Mutate(s, r)
  \/ \E s \in Slots : OnMutate(s)
  \/ \E s \in Slots : DispatchOnline(s)
  \/ \E s \in Slots : ApiOk(s)
  \/ \E s \in Slots : ApiFail(s)
  \/ \E s \in Slots, rnd \in 1..MaxRand : DispatchOffline(s, rnd)
  \/ \E s \in Slots : EnqueueReturn(s)
  \/ \E s \in Slots : MirrorWrite(s)
  \/ \E s \in Slots : ListItems(s)
  \/ \E s \in Slots : DeleteItems(s)
  \/ \E s \in Slots : MirrorGet(s)
  \/ \E s \in Slots : MirrorPut(s)
  \/ \E s \in Slots : CountItems(s)
  \/ \E s \in Slots : CountList(s)
  \/ \E s \in Slots : CountPut(s)

MutationSpec == MutationInit /\ [][MutationNext]_vars

\* --------------------------------------------- the mirror and the queries
\* A list the server no longer has.
OldList == ListRec(3, "old", 1, 0, 0, 0)

\* A page load: nothing is cached, the mirror is empty or holds an earlier
\* fetch, and the database may not open.
StoreInit ==
  /\ online \in BOOLEAN
  /\ now = 0
  /\ log = {}
  /\ nextSeq = 1
  /\ enqWaiting = 0
  /\ timers = 0
  /\ isProcessing = FALSE
  /\ pc = "idle"
  /\ actions = <<>>
  /\ idx = 0
  /\ resp = NoOutcome
  /\ existing = {}
  /\ events = <<>>
  /\ reqs = <<>>
  /\ delays = <<>>
  /\ clean = FALSE
  /\ stopped = ""
  /\ collapsed = FALSE
  /\ dbOk \in BOOLEAN
  /\ mounted = TRUE
  /\ OtherIdle
  /\ isSyncing = FALSE
  /\ qLists = Undefined
  /\ qItems = Undefined
  /\ \/ dbLists = {} /\ dbItems = {}
     \/ dbLists = BaseLists \cup {OldList} /\ dbItems = BaseItems
  /\ muts = NoMutations
  /\ txOrder = <<>>
  /\ nextUlid = 1
  /\ srvLists = BaseLists
  /\ invalidated = {}
  /\ fetches = NoFetches
  /\ qError = {}
  /\ isOnline = online

\* The two queries, the connection going down, and one createItem made
\* offline.
StoreNext ==
  \/ \E k \in Keys : Refetch(k)
  \/ \E k \in Keys, V \in ItemResponses \cup {AsSeq(srvLists)} : FetchOk(k, V)
  \/ \E k \in Keys : FetchNetworkError(k)
  \/ \E k \in Keys : FetchHttpError(k)
  \/ QueryExisting("items")
  \/ \E k \in Keys : QueryStore(k)
  \/ \E k \in Keys : QueryRead(k)
  \/ GoOffline
  \/ ~online /\ Mutate(1, Request("item.create", 0, "", 3, 2, <<>>))
  \/ \E s \in Slots : OnMutate(s)
  \/ \E s \in Slots, rnd \in 1..MaxRand : DispatchOffline(s, rnd)
  \/ \E s \in Slots : EnqueueRejected(s)
  \/ \E s \in Slots : EnqueueReturn(s)
  \/ \E s \in Slots : MirrorWrite(s)
  \/ \E s \in Slots : CountItems(s)
  \/ \E s \in Slots : CountList(s)
  \/ \E s \in Slots : CountPut(s)

StoreSpec == StoreInit /\ [][StoreNext]_vars

\* ------------------------------------------- created offline, then synced
\* createList(name) as it is called here.
CreateList == Request("list.create", 0, "new", 0, 0, <<>>)

\* The page with the lists loaded from the server, or not loaded yet, and
\* the mirror holding the last fetch.
RoundTripInit ==
  /\ online \in BOOLEAN
  /\ now = 0
  /\ log = {}
  /\ nextSeq = 1
  /\ enqWaiting = 0
  /\ timers = 0
  /\ isProcessing = FALSE
  /\ pc = "idle"
  /\ actions = <<>>
  /\ idx = 0
  /\ resp = NoOutcome
  /\ existing = {}
  /\ events = <<>>
  /\ reqs = <<>>
  /\ delays = <<>>
  /\ clean = FALSE
  /\ stopped = ""
  /\ collapsed = FALSE
  /\ dbOk = TRUE
  /\ mounted = TRUE
  /\ OtherIdle
  /\ isSyncing = FALSE
  /\ qLists \in {Undefined, Cached(AsSeq(BaseLists))}
  /\ qItems = Undefined
  /\ dbLists = BaseLists
  /\ dbItems = BaseItems
  /\ muts = NoMutations
  /\ txOrder = <<>>
  /\ nextUlid = 1
  /\ srvLists = BaseLists
  /\ invalidated = {}
  /\ fetches = NoFetches
  /\ qError = {}
  /\ isOnline = online

\* The request of a queued action is answered.  A 2xx to the POST of a
\* list.create means the server has created the list, with an id of its
\* own; what the client does with the answer is Responded(o): the body of
\* the response is not read.
ServerSync(o) ==
  /\ Responded(o)
  /\ srvLists' = IF /\ Classify(o) = "complete"
                    /\ actions[idx].type = "list.create"
                 THEN ServerApply(CreateList, srvLists)
                 ELSE srvLists
  /\ UNCHANGED <<dbOk, mounted, otherVars, dbLists, dbItems, qLists, qItems,
                 muts,
                 txOrder, nextUlid, invalidated, queryVars>>

\* One createList, the connection coming and going, the drains of the
\* queue and the lists query.
RoundTripNext ==
  \/ Mutate(1, CreateList)
  \/ OnMutate(1)
  \/ DispatchOnline(1)
  \/ ApiOk(1)
  \/ ApiFail(1)
  \/ \E rnd \in 1..MaxRand : DispatchOffline(1, rnd)
  \/ EnqueueReturn(1)
  \/ MirrorWrite(1)
  \/ GoOnline
  \/ GoOffline
  \/ TriggerSync
  \/ TimerFire
  \/ Load
  \/ \E o \in Outcomes : ServerSync(o)
  \/ RetryPut
  \/ Finish
  \/ Refetch("lists")
  \/ QueryStart("lists")
  \/ FetchOk("lists", AsSeq(srvLists))
  \/ FetchNetworkError("lists")
  \/ FetchHttpError("lists")
  \/ QueryStore("lists")
  \/ QueryRead("lists")

RoundTripSpec == RoundTripInit /\ [][RoundTripNext]_vars

\* Fairness: every step the program has started is completed (a callback
\* runs, a request is answered, a transaction completes, a timer fires, an
\* invalidated query is fetched).  Nothing forces the user to call a
\* mutation, to focus the window or to remount the page, nor the
\* connection to change.
RoundTripLive ==
  /\ RoundTripSpec
  /\ WF_vars(OnMutate(1))
  /\ WF_vars(DispatchOnline(1) \/ \E rnd \in 1..MaxRand : DispatchOffline(1, rnd))
  /\ WF_vars(ApiOk(1) \/ ApiFail(1))
  /\ WF_vars(EnqueueReturn(1))
  /\ WF_vars(MirrorWrite(1))
  /\ WF_vars(Load)
  /\ WF_vars(\E o \in Outcomes : ServerSync(o))
  /\ WF_vars(RetryPut)
  /\ WF_vars(Finish)
  /\ WF_vars(TimerFire)
  /\ WF_vars(QueryStart("lists"))
  /\ WF_vars(FetchOk("lists", AsSeq(srvLists)) \/ FetchNetworkError("lists")
               \/ FetchHttpError("lists"))
  /\ WF_vars(QueryStore("lists"))
  /\ WF_vars(QueryRead("lists"))

\* ------------------------------------------- the status hook: the count
\* The part of the listener of useOnlineStatus that runs inside the emit of
\* the step, if there was one and the hook has subscribed: sync-complete
\* carries the count, action-complete and action-error make the hook call
\* getPendingCount().then(setPendingCount).
OnCountEvent ==
  IF mounted /\ Len(events') > Len(events)
  THEN LET e == events'[Len(events')]
       IN  /\ pendingCount' = IF e.type = "sync-complete" THEN e.pending
                              ELSE pendingCount
           /\ countAsked' =
                IF e.type \in {"action-complete", "action-error"}
                THEN countAsked + 1 ELSE countAsked
  ELSE UNCHANGED countVars

\* What a step of the pass leaves alone besides the count of the hook.
StatusFrame ==
  UNCHANGED <<dbOk, mounted, dataVars, hookOnline, backendVars>>

\* The awaited fetch settles, with the listener of the hook.
StatusRespond(o) ==
  /\ Responded(o)
  /\ OnCountEvent
  /\ countAsked' <= MaxReads
  /\ StatusFrame

\* The end of the pass, with the listener of the hook.
StatusFinish ==
  /\ Finished
  /\ OnCountEvent
  /\ StatusFrame

\* The effects of useOnlineStatus run, some time after its first render:
\* the online and offline listeners are registered, the hook subscribes to
\* syncQueue, asks for the count and starts the 5 s interval.
Subscribe ==
  /\ ~mounted
  /\ mounted' = TRUE
  /\ countAsked' = countAsked + 1
  /\ UNCHANGED <<online, now, log, nextSeq, enqWaiting, timers, dbOk,
                 dataVars, hookOnline, pendingCount, backendVars>>
  /\ UNCHANGED passVars

\* An interval whose callback does nothing.
PollIdle ==
  /\ mounted
  /\ UNCHANGED vars

\* The interval fires and calls getPendingCount().
Poll ==
  /\ mounted
  /\ countAsked < MaxReads
  /\ countAsked' = countAsked + 1
  /\ UNCHANGED <<online, now, log, nextSeq, enqWaiting, timers, dbOk, mounted,
                 dataVars, hookOnline, pendingCount, backendVars>>
  /\ UNCHANGED passVars

\* A getPendingCount() of the hook resolves and setPendingCount runs; if the
\* database does not open the promise rejects and the count stays.
CountResolve ==
  /\ countAsked > 0
  /\ countAsked' = countAsked - 1
  /\ pendingCount' = IF dbOk /\ mounted THEN getPendingCount ELSE pendingCount
  /\ UNCHANGED <<online, now, log, nextSeq, enqWaiting, timers, dbOk, mounted,
                 dataVars, hookOnline, backendVars>>
  /\ UNCHANGED passVars

\* A page load with a database that opens: useOnlineStatus has rendered
\* (isOnline is navigator.onLine, pendingCount 0) and its effects have not
\* run yet.
StatusInit ==
  /\ online \in BOOLEAN
  /\ now = 0
  /\ log = {}
  /\ nextSeq = 1
  /\ enqWaiting = 0
  /\ timers = 0
  /\ isProcessing = FALSE
  /\ pc = "idle"
  /\ actions = <<>>
  /\ idx = 0
  /\ resp = NoOutcome
  /\ existing = {}
  /\ events = <<>>
  /\ reqs = <<>>
  /\ delays = <<>>
  /\ clean = FALSE
  /\ stopped = ""
  /\ collapsed = FALSE
  /\ dbOk = TRUE
  /\ mounted = FALSE
  /\ isSyncing = FALSE
  /\ ClientIdle
  /\ hookOnline = online
  /\ pendingCount = 0
  /\ countAsked = 0
  /\ srvItems = {}
  /\ users = {}
  /\ regs = [r \in 1..MaxRegisters |-> NoRegister]

\* The answers that remove the action, with action-complete or with
\* action-error, and the network error that leaves it in the log.
StatusOutcomes ==
  { o \in Outcomes : Classify(o) \in {"complete", "clientError", "break"} }

\* The sync queue with the status hook: its effects, its listeners and its
\* poll.
StatusNext ==
  \/ Load
  \/ \E o \in StatusOutcomes : StatusRespond(o)
  \/ StatusFinish
  \/ \E r \in 1..MaxRand : Enqueue("list.create", 0, r)
  \/ EnqueueResume
  \/ GoOnline
  \/ GoOffline
  \/ TriggerSync
  \/ RegisterOrLogout
  \/ Subscribe
  \/ Poll
  \/ CountResolve

StatusSpec == StatusInit /\ [][StatusNext]_vars

\* Fairness: as in LiveSpec, and the effects of the hook run, its interval
\* fires and its reads of the count resolve.
StatusLive ==
  /\ StatusSpec
  /\ WF_vars(Load)
  /\ WF_vars(\E o \in StatusOutcomes : StatusRespond(o))
  /\ WF_vars(StatusFinish)
  /\ WF_vars(EnqueueResume)
  /\ WF_vars(Subscribe)
  /\ WF_vars(Poll)
  /\ WF_vars(CountResolve)

\* ------------------------------------------------------------ the server
\* TouchUpdatedAt(listID): version = version + 1 of that list, if it exists.
TouchUpdatedAt(lists, lid) ==
  { IF l.id = lid THEN [l EXCEPT !.version = @ + 1] ELSE l : l \in lists }

\* The smallest id the table does not hold (auth.GenerateID() is unique).
GenerateID(S) ==
  CHOOSE i \in 1..(Cardinality(S) + 1) :
    /\ i \notin { x.id : x \in S }
    /\ \A j \in 1..(i - 1) : j \in { x.id : x \in S }

\* The versions of a table stay within the bound.
VersionsBelow(S, n) == \A x \in S : x.version < n

\* What the handlers of the lists and of the items leave alone.
BackendFrame ==
  /\ UNCHANGED <<online, now, log, nextSeq, enqWaiting, timers, dbOk, mounted,
                 statusVars>>
  /\ UNCHANGED passVars
  /\ UNCHANGED <<dbLists, dbItems, qLists, qItems, muts, txOrder, nextUlid,
                 invalidated, queryVars>>

\* POST /api/lists answered 201: listRepo.Create with version 1.
ListCreate ==
  /\ Cardinality(srvLists) < MaxLists
  /\ VersionsBelow(srvLists, MaxVersion)
  /\ srvLists' = ServerApply(CreateList, srvLists)
  /\ UNCHANGED <<srvItems, users, regs>>
  /\ BackendFrame

\* PUT /api/lists/:id answered 200: listRepo.Update.
ListUpdate(id) ==
  /\ Get(srvLists, id) # {}
  /\ VersionsBelow(srvLists, MaxVersion)
  /\ srvLists' = ServerApply(Request("list.update", id, "renamed", 0, 0, <<>>),
                             srvLists)
  /\ UNCHANGED <<srvItems, users, regs>>
  /\ BackendFrame

\* DELETE /api/lists/:id answered 200: the items go with the list.
ListDelete(id) ==
  /\ Get(srvLists, id) # {}
  /\ srvLists' = Delete(srvLists, id)
  /\ srvItems' = { i \in srvItems : i.listId # id }
  /\ UNCHANGED <<users, regs>>
  /\ BackendFrame

\* POST /api/lists/:listId/items answered 201: itemRepo.Create with version
\* 1 after the largest sort order, then TouchUpdatedAt of the list.
ItemCreate(lid) ==
  /\ Get(srvLists, lid) # {}
  /\ VersionsBelow(srvLists, MaxVersion)
  /\ Cardinality(srvItems) < MaxItems
  /\ LET its == ByList(srvItems, lid)
         maxOrder == IF its = {} THEN -1
                     ELSE CHOOSE n \in { i.sortOrder : i \in its } :
                            \A i \in its : i.sortOrder <= n
     IN  srvItems' = srvItems \cup
           { ItemRec(GenerateID(srvItems), lid, FALSE, 0, 1, maxOrder + 1, 1) }
  /\ srvLists' = TouchUpdatedAt(srvLists, lid)
  /\ UNCHANGED <<users, regs>>
  /\ BackendFrame

\* PUT /api/lists/:listId/items/:id answered 200: itemRepo.Update, then
\* TouchUpdatedAt of the list.
ItemUpdate(id) ==
  /\ VersionsBelow(srvLists \cup srvItems, MaxVersion)
  /\ \E i \in Get(srvItems, id) :
       /\ srvItems' = Put(srvItems, [i EXCEPT !.price = 5,
                                              !.version = @ + 1])
       /\ srvLists' = TouchUpdatedAt(srvLists, i.listId)
  /\ UNCHANGED <<users, regs>>
  /\ BackendFrame

\* POST .../items/:id/toggle answered 200: itemRepo.ToggleChecked; the list
\* is not touched.
ItemToggle(id) ==
  /\ VersionsBelow(srvItems, MaxVersion)
  /\ \E i \in Get(srvItems, id) :
       srvItems' = Put(srvItems, [i EXCEPT !.checked = ~@,
                                           !.version = @ + 1])
  /\ UNCHANGED <<srvLists, users, regs>>
  /\ BackendFrame

\* DELETE .../items/:id answered 200: itemRepo.Delete, then TouchUpdatedAt.
ItemDelete(id) ==
  /\ VersionsBelow(srvLists, MaxVersion)
  /\ \E i \in Get(srvItems, id) :
       /\ srvItems' = Delete(srvItems, id)
       /\ srvLists' = TouchUpdatedAt(srvLists, i.listId)
  /\ UNCHANGED <<users, regs>>
  /\ BackendFrame

\* A Reorder that increments the version of the items it moves.
ReorderVersioned(items, ids) ==
  { IF \E k \in DOMAIN ids : ids[k] = i.id
    THEN [i EXCEPT !.sortOrder = (CHOOSE k \in DOMAIN ids : ids[k] = i.id) - 1,
                   !.version = @ + 1]
    ELSE i : i \in items }

\* itemRepo.Reorder(itemIDs): sort_order = index for each id, in one
\* transaction; the version is left as it is.
Reorder(items, ids) ==
  { IF \E k \in DOMAIN ids : ids[k] = i.id
    THEN [i EXCEPT !.sortOrder = (CHOOSE k \in DOMAIN ids : ids[k] = i.id) - 1]
    ELSE i : i \in items }

\* The arrays of ids a reorder request carries.
ReorderRequests == { <<1, 2>>, <<2, 1>>, <<2>> }

\* POST /api/lists/:listId/items/reorder answered 200: itemRepo.Reorder,
\* then TouchUpdatedAt of the list.
ItemReorder(lid, ids) ==
  /\ VersionsBelow(srvLists, MaxVersion)
  /\ srvItems' = Reorder(srvItems, ids)
  /\ srvLists' = TouchUpdatedAt(srvLists, lid)
  /\ UNCHANGED <<users, regs>>
  /\ BackendFrame

\* What the steps of Register leave alone.
RegisterFrame ==
  /\ UNCHANGED <<srvLists, srvItems>>
  /\ BackendFrame

\* Register up to userRepo.Count(): the request is decoded and valid;
\* count > 0 is answered 403.
RegisterCount(r, username) ==
  /\ regs[r].pc = "idle"
  /\ \A q \in 1..(r - 1) : regs[q].pc # "idle"
  /\ regs' = [regs EXCEPT ![r] =
       IF Cardinality(users) > 0
       THEN [pc |-> "done", username |-> username, status |-> 403]
       ELSE [pc |-> "counted", username |-> username, status |-> 0]]
  /\ UNCHANGED users
  /\ RegisterFrame

\* Register from the hash of the password on: userRepo.Create of an admin
\* (400 if the username is taken), the session, 201.
RegisterCreate(r) ==
  /\ regs[r].pc = "counted"
  /\ IF \E u \in users : u.username = regs[r].username
     THEN /\ regs' = [regs EXCEPT ![r].pc = "done", ![r].status = 400]
          /\ UNCHANGED users
     ELSE /\ users' = users \cup
            { [id |-> GenerateID(users), username |-> regs[r].username,
               isAdmin |-> TRUE] }
          /\ regs' = [regs EXCEPT ![r].pc = "done", ![r].status = 201]
  /\ RegisterFrame

\* The server with nothing in its tables; the client is idle throughout.
BackendInit ==
  /\ online = TRUE
  /\ now = 0
  /\ log = {}
  /\ nextSeq = 1
  /\ enqWaiting = 0
  /\ timers = 0
  /\ isProcessing = FALSE
  /\ pc = "idle"
  /\ actions = <<>>
  /\ idx = 0
  /\ resp = NoOutcome
  /\ existing = {}
  /\ events = <<>>
  /\ reqs = <<>>
  /\ delays = <<>>
  /\ clean = FALSE
  /\ stopped = ""
  /\ collapsed = FALSE
  /\ dbOk = TRUE
  /\ mounted = TRUE
  /\ OtherIdle
  /\ isSyncing = FALSE
  /\ ClientIdle

\* The requests the server answers 2xx, in any order while no version has
\* reached MaxVersion, and the Register requests, whose two database calls
\* interleave with those of the other requests.
BackendNext ==
  \/ ListCreate
  \/ \E id \in 1..MaxLists : ListUpdate(id)
  \/ \E id \in 1..MaxLists : ListDelete(id)
  \/ \E lid \in 1..MaxLists : ItemCreate(lid)
  \/ \E id \in 1..MaxItems : ItemUpdate(id)
  \/ \E id \in 1..MaxItems : ItemToggle(id)
  \/ \E id \in 1..MaxItems : ItemDelete(id)
  \/ \E lid \in 1..MaxLists, ids \in ReorderRequests : ItemReorder(lid, ids)
  \/ \E r \in 1..MaxRegisters, u \in {"ann", "bob"} : RegisterCount(r, u)
  \/ \E r \in 1..MaxRegisters : RegisterCreate(r)

BackendSpec == BackendInit /\ [][BackendNext]_vars

\* ------------------------------------- a direct call next to the queue
\* updateList(1, "renamed") as it is called here, twice.
UpdateList == Request("list.update", 1, "renamed", 0, 0, <<>>)

\* The request of a queued action is answered: a 2xx to the PUT of a
\* list.update means the server has applied it.
OvertakeSync(o) ==
  /\ Responded(o)
  /\ srvLists' = IF /\ Classify(o) = "complete"
                    /\ actions[idx].type = "list.update"
                 THEN ServerApply(UpdateList, srvLists)
                 ELSE srvLists
  /\ UNCHANGED <<dbOk, mounted, otherVars, dbLists, dbItems, qLists, qItems,
                 muts, txOrder, nextUlid, invalidated, queryVars>>

\* A mutation called while navigator.onLine.
MutateOnline(s, r) ==
  /\ online
  /\ Mutate(s, r)

\* Two updates of the same list, the second one called while online, the
\* connection coming and going, and the drains of the queue.
OvertakeNext ==
  \/ Mutate(1, UpdateList)
  \/ MutateOnline(2, UpdateList)
  \/ \E s \in Slots : OnMutate(s)
  \/ \E s \in Slots : DispatchOnline(s)
  \/ \E s \in Slots : ApiOk(s)
  \/ \E s \in Slots : ApiFail(s)
  \/ \E s \in Slots, rnd \in 1..MaxRand : DispatchOffline(s, rnd)
  \/ \E s \in Slots : EnqueueReturn(s)
  \/ \E s \in Slots : MirrorGet(s)
  \/ \E s \in Slots : MirrorPut(s)
  \/ GoOnline
  \/ GoOffline
  \/ Load
  \/ \E o \in StatusOutcomes : OvertakeSync(o)
  \/ Finish

OvertakeSpec == RoundTripInit /\ [][OvertakeNext]_vars

\* ================================================================ claims
Ok == [kind |-> "response", status |-> 200]
Conflict == [kind |-> "response", status |-> 409]
ClientError == [kind |-> "response", status |-> 400]
ServerError == [kind |-> "response", status |-> 500]
NetworkError == [kind |-> "networkError", status |-> 0]
OtherError == [kind |-> "error", status |-> 0]

Last(s) == s[Len(s)]

\* Every way processQueue() gets called.
Trigger == EnqueueResume \/ GoOnline \/ TimerFire \/ TriggerSync \/ Login

\* C1: a call of processQueue() made while a pass is in progress, whatever
\* made it, emits nothing, does not read the log and issues no request: the
\* pass in progress is left exactly as it was.
C1_SingleFlight ==
  [][(isProcessing /\ Trigger) =>
       UNCHANGED <<isProcessing, pc, actions, idx, resp, existing, events,
                   reqs, delays>>]_vars

C1_Witness == isProcessing /\ collapsed /\ pc = "fetch"

\* C2: getPendingActions() returns the actions in the order in which they
\* were enqueued, also when several were enqueued in the same millisecond.
C2_FifoOrder ==
  \A i, j \in DOMAIN getPendingActions :
    i < j => getPendingActions[i].seq < getPendingActions[j].seq

\* C3: as long as the connection has stayed up and every response was 2xx,
\* the pass has issued the requests in log order, one at a time, has emitted
\* one action-complete per answered action with the pending count going
\* n-1, ..., 0, and reaches its end only after all n; the closing
\* sync-complete then carries 0.
C3_Progress ==
  (pc \in {"fetch", "count"} /\ clean) =>
    LET n == Len(actions)
        k == idx - 1
        sent == IF pc = "fetch" THEN idx ELSE k
    IN /\ reqs = [i \in 1..sent |-> actions[i].id]
       /\ Len(events) = k + 1
       /\ events[1].type = "sync-start"
       /\ Tail(events) = [i \in 1..k |->
                            Event("action-complete", actions[i].id, "", n - i)]
       /\ \A i \in 1..k : actions[i] \notin log
       /\ pc = "count" => k = n

C3_CleanDrain ==
  /\ []C3_Progress
  /\ [][(pc = "count" /\ clean /\ pc' = "idle") =>
          Last(events') = Event("sync-complete", NoId, "", 0)]_vars

\* C4: when the loop is left early (connection found lost at the top of an
\* iteration, or fetch failed with a network error), the action it stopped
\* at and every later action of the pass stay in the log as they are, no
\* request is issued for them and nothing is scheduled, and the pass goes
\* to its end without issuing any further request.
C4_EarlyStop ==
  [][/\ (idx' # idx /\ idx' \in 1..Len(actions') /\ ~online) =>
          /\ pc' = "count"
          /\ reqs' = reqs
          /\ \A j \in idx'..Len(actions') :
               actions'[j] \in log => actions'[j] \in log'
     /\ Respond(NetworkError) =>
          /\ pc' = "count"
          /\ log' = log
          /\ reqs' = reqs
          /\ timers' = timers
          /\ events' = events
     /\ pc = "count" =>
          /\ pc' \in {"count", "idle"}
          /\ pc' = "count" => reqs' = reqs]_vars

C4_Witness ==
  /\ pc = "count"
  /\ stopped = "network"
  /\ Len(actions) = 2
  /\ idx = 2
  /\ actions[1].id \notin Ids(log)
  /\ actions[2] \in log

\* C5: a 409 removes the action it answers and nothing else: no retry is
\* scheduled, no retryCount changes and the rest of the log is unchanged.
C5_Conflict ==
  [][Respond(Conflict) =>
       /\ log' = { a \in log : a.id # actions[idx].id }
       /\ timers' = timers
       /\ delays' = delays
       /\ idx' = idx + 1]_vars

C5_Witness ==
  /\ Len(actions) = 2
  /\ idx = 2
  /\ events # <<>>
  /\ Last(events) = Event("action-error", actions[1].id, "Conflict", 1)
  /\ actions[2] \in log

\* C6: a 4xx other than 409 removes the action without scheduling a retry,
\* emits action-error for it, and the pass goes on with the next action of
\* its list.
C6_ClientError ==
  [][Respond(ClientError) =>
       /\ log' = { a \in log : a.id # actions[idx].id }
       /\ events' = Append(events, Event("action-error", actions[idx].id,
                                         "Client error", Cardinality(log')))
       /\ timers' = timers
       /\ delays' = delays
       /\ idx' = idx + 1
       /\ (online /\ idx < Len(actions)) =>
            /\ pc' = "fetch"
            /\ reqs' = Append(reqs, actions[idx + 1].id)]_vars

C6_Witness ==
  /\ pc = "fetch"
  /\ idx = 2
  /\ Last(events).error = "Client error"
  /\ Last(reqs) = actions[2].id

\* C7: an action of the log with retryCount r < 5 that got a 5xx stays in
\* the log with retryCount r + 1 and the error recorded, no other action is
\* touched, and one processQueue() is scheduled after the entry of the
\* backoff table for the new retryCount less one (counted from 0; the
\* sequence RETRY_DELAYS here is counted from 1).
C7_Retry ==
  [][(pc = "retryPut" /\ pc' # "retryPut" /\ resp = ServerError
        /\ existing # {}) =>
       LET action == actions[idx]
           r == action.retryCount
       IN /\ r < MAX_RETRIES
          /\ log' = { a \in log : a.id # action.id }
                      \cup {[action EXCEPT !.retryCount = r + 1,
                                           !.lastError = "error"]}
          /\ timers' = timers + 1
          /\ delays' = Append(delays, RETRY_DELAYS[r + 1])]_vars

C7_Witness ==
  /\ resp = ServerError
  /\ delays = <<30000>>
  /\ \E a \in log : a.retryCount = 5 /\ a.lastError = "error"

\* C8 as stated: an action of the log whose retryCount has reached 5 is
\* removed, with an action-error, by its next failure of any kind: 5xx,
\* fetch network error or any other throw.
C8_AnyFailure ==
  [][\A o \in {ServerError, NetworkError, OtherError} :
       (Respond(o) /\ actions[idx].retryCount >= 5 /\ actions[idx] \in log) =>
         /\ actions[idx] \notin log'
         /\ events' = Append(events, Event("action-error", actions[idx].id,
                                  "Max retries exceeded",
                                  Cardinality(log')))]_vars

\* C8: an action of the log whose retryCount has reached 5 is removed, with
\* an action-error, by its next failure that handleRetry gets: a 5xx or a
\* throw that is not a fetch network error.
C8_HandledFailure ==
  [][\A o \in {ServerError, OtherError} :
       (Respond(o) /\ actions[idx].retryCount >= 5 /\ actions[idx] \in log) =>
         /\ actions[idx] \notin log'
         /\ events' = Append(events, Event("action-error", actions[idx].id,
                                  "Max retries exceeded",
                                  Cardinality(log')))]_vars

C8_Witness ==
  /\ events # <<>>
  /\ Last(events).error = "Max retries exceeded"
  /\ resp = OtherError
  /\ actions[idx - 1].retryCount = 5

\* C9: a pending action leaves the log only when the drain pass resolves it:
\* the step that takes it out is the pass handling the response to it.
C9_OnlyDrainRemoves ==
  [][\A a \in log :
       a \notin log' =>
         /\ pc \in {"fetch", "retryPut"}
         /\ a.id = actions[idx].id]_vars

\* C10: if from some point on the connection stays up and every response is
\* 2xx, then without any user action the log becomes empty and, nothing
\* being enqueued while online, stays empty.
C10_AutoSync ==
  <>[](online /\ (resp = NoOutcome \/ Classify(resp) = "complete"))
    => <>[](log = {})

ActionEventTypes == {"action-complete", "action-error"}

\* C11: the step that handles a response appends exactly one event with the
\* action's id when it removes the action (action-complete for 2xx,
\* action-error for 409, another 4xx or retries exhausted) and no event when
\* the action stays (5xx with retries left, network error); no other step
\* emits an action-complete or action-error.
C11_Announced ==
  [][/\ \A o \in Outcomes :
          (dbOk /\ Respond(o)) =>
            LET action == actions[idx]
                c == Classify(o)
                removes == c \in {"complete", "conflict", "clientError"}
                             \/ (c = "retry" /\ action.retryCount >= MAX_RETRIES)
            IN IF removes
               THEN /\ action.id \notin Ids(log')
                    /\ Len(events') = Len(events) + 1
                    /\ events = SubSeq(events', 1, Len(events))
                    /\ Last(events').actionId = action.id
                    /\ Last(events').type =
                         IF c = "complete" THEN "action-complete"
                         ELSE "action-error"
               ELSE /\ events' = events
                    /\ (action \in log => action \in log')
     /\ (pc # "fetch" /\ events' # events) =>
          Last(events').type \notin ActionEventTypes]_vars

C11_Witness ==
  /\ Len(events) = 3
  /\ events[2].type = "action-complete"
  /\ events[3].type = "action-error"
  /\ events[3].error = "Max retries exceeded"
  /\ events[2].actionId # events[3].actionId

TerminalTypes == {"sync-complete", "sync-error"}

\* The events since the last sync-start: one sync-start, at the head, and
\* one sync-complete or sync-error, at the end, if and only if the pass is
\* over.
PassEvents ==
  IF events = <<>> THEN ~isProcessing
  ELSE /\ events[1].type = "sync-start"
       /\ \A i \in 2..Len(events) : events[i].type # "sync-start"
       /\ \A i \in 1..(Len(events) - 1) : events[i].type \notin TerminalTypes
       /\ (Last(events).type \in TerminalTypes) <=> ~isProcessing

\* C12 as stated: sync-start and sync-complete/sync-error alternate, and the
\* isSyncing of a mounted useOnlineStatus is true exactly while a pass is in
\* progress.
C12_Exactly ==
  /\ PassEvents
  /\ mounted => (isSyncing <=> isProcessing)

\* C12: sync-start and sync-complete/sync-error alternate; isSyncing is true
\* only while a pass is in progress (it is reset when the pass ends, by
\* sync-complete or by sync-error), and it is true for the whole pass in a
\* hook that was mounted when the pass started.
C12_WhileMounted ==
  /\ []PassEvents
  /\ [](isSyncing => (mounted /\ isProcessing))
  /\ [][(events' # events /\ Len(events') = 1) =>
          (events = <<>> \/ Last(events).type \in TerminalTypes)]_vars
  /\ [][(mounted /\ mounted' /\ isProcessing'
           /\ (isSyncing \/ ~isProcessing)) => isSyncing']_vars

C12_Witness ==
  /\ mounted
  /\ ~isSyncing
  /\ ~isProcessing
  /\ Len(events) = 3
  /\ events[2].type = "action-complete"
  /\ events[3].type = "sync-error"

C14_EnqueueFrame ==
  [][/\ \A ty \in ActionTypes, t \in 0..MaxClock, r \in 1..MaxRand :
          Enqueue(ty, t, r) =>
            \E a \in log' :
              /\ a.id \notin Ids(log)
              /\ log' = log \cup {a}
              /\ a.type = ty
              /\ a.retryCount = 0
              /\ a.lastError = ""
              /\ UNCHANGED passVars
     /\ EnqueueResume =>
          IF online
          THEN IF isProcessing
               THEN collapsed' /\ pc' = pc /\ events' = events
               ELSE isProcessing' /\ pc' = "load"
                      /\ Len(events') = 1 /\ events'[1].type = "sync-start"
          ELSE UNCHANGED passVars]_vars

C14_Witness ==
  /\ nextSeq = 3
  /\ enqWaiting = 0
  /\ Cardinality(log) = 2
  /\ \A a \in log : a.retryCount = 0 /\ a.lastError = ""
  /\ pc = "load"
  /\ events = <<Event("sync-start", NoId, "", 2)>>

\* C15: when the direct call of an online mutation fails, the collection the
\* transform changed is back to exactly the snapshot taken before the
\* transform, whatever the cache held: data, an empty array, or nothing yet
\* (undefined).  The lists patched by an item mutation are included when
\* they were loaded, the only case in which the transform changes them.
C15_ExactRollback ==
  [][\A s \in Slots :
       ApiFail(s) =>
         /\ muts[s].req.kind \in ListKinds => qLists' = muts[s].previousLists
         /\ muts[s].req.kind \in ItemKinds => qItems' = muts[s].previousItems
         /\ muts[s].lists.loaded => qLists' = muts[s].lists]_vars

\* Where a mutation is: onMutate has run its transform on the view; the
\* direct call has been issued or the action put into the log; every mirror
\* call of mutationFn, updateListCounts included, has returned.
ViewApplied(m) == m.pc \notin {"idle", "onMutate"}
Dispatched(m) == m.pc \notin {"idle", "onMutate", "fn"}
MirrorApplied(m) == m.pc = "done"

\* C16: once a mutation is dispatched (the direct call issued when online,
\* the action enqueued when offline) its speculative change has already
\* been applied both to the in-memory view and to the mirror, aggregates
\* included.
C16_AppliedBeforeDispatch ==
  \A s \in Slots :
    Dispatched(muts[s]) => ViewApplied(muts[s]) /\ MirrorApplied(muts[s])

\* The lists named like the created one, in a collection of lists.
Created(S) == { l \in S : l.name = CreateList.name }

\* The list was created offline, its queued action has been answered 2xx
\* and removed, and no pass is running.
Synced ==
  /\ muts[1].pc = "done"
  /\ Created(srvLists) # {}
  /\ log = {}
  /\ ~isProcessing

\* The view and the mirror hold the created list once, as the server has
\* it: its id, its version and its fields.
Converged ==
  /\ qLists.loaded
  /\ Created(Elems(qLists.data)) = Created(srvLists)
  /\ Created(dbLists) = Created(srvLists)

\* C17: a list created offline and then synced with a 2xx response ends,
\* after the refetch the successful drain triggers, as a single list in the
\* view and in the mirror, carrying the id, version and fields the server
\* returned; the placeholder does not remain, alone or beside it.
C17_RoundTrip == Synced ~> Converged

\* The lists are fetched after the sync: the fetch that the server answers
\* with the created list leaves it once in the view and in the mirror.
C17_AfterRefetch ==
  [][(QueryStore("lists") /\ Synced /\ ~fetches["lists"].cancelled
        /\ Created(Elems(fetches["lists"].data)) = Created(srvLists)) =>
       Converged']_vars

\* The list has been synced and the view and the mirror still hold the
\* placeholder, under two different client ids.
C17_Placeholder ==
  /\ Synced
  /\ \E v \in Created(Elems(qLists.data)), m \in Created(dbLists) :
       /\ v.id > MaxServerId
       /\ m.id > MaxServerId
       /\ v.id # m.id
  /\ fetches["lists"].pc = "idle"
  /\ "lists" \notin invalidated


\* The offline item mutations that end with updateListCounts(listId).
CountedKinds == {"item.create", "item.update", "item.toggle", "item.delete"}

\* Every mutation called so far is an offline create, update, toggle or
\* delete of an item and has completed; at least one was called.
CountedMutationsDone ==
  /\ ~online
  /\ \E s \in Slots : muts[s].pc = "done"
  /\ \A s \in Slots :
       \/ muts[s].pc = "idle"
       \/ muts[s].pc = "done" /\ muts[s].req.kind \in CountedKinds

\* C18: after offline item mutations on a list present in the mirror have
\* completed, however their asynchronous steps interleaved, the mirror
\* list's totalItems, checkedItems and totalPrice are the number of mirror
\* items of the list, the number of checked ones and the sum of price times
\* quantity over them.
C18_AggregatesDerived ==
  CountedMutationsDone =>
    \A l \in Get(dbLists, listId) : l = WithCounts(l, ByList(dbItems, listId))

\* C19: with a database that is missing or does not open, the mirror read
\* behind an offline query (getLists, getItems; getList and getCategories
\* start with the same getDB()) resolves with an empty result instead of
\* rejecting, so the query of useLists / useItems does not fail.
C19_ReadsNeverReject ==
  [][\A k \in Keys :
       (QueryRead(k) /\ ~dbOk /\ ~fetches[k].cancelled) =>
         /\ k \notin qError'
         /\ (IF k = "lists" THEN qLists' ELSE qItems') = Cached(<<>>)]_vars

\* The items of the mirror that belong to other lists than lid.
OtherItems(store, lid) == { x \in store : x.listId # lid }

C21_CountFollowsLog ==
  <>[][log' = log]_vars => <>[](pendingCount = Cardinality(log))

\* An action was enqueued offline, with no event emitted, and a read of the
\* count made by the hook has brought the count to 1.
C21_Witness ==
  /\ mounted
  /\ ~online
  /\ events = <<>>
  /\ Cardinality(log) = 1
  /\ pendingCount = 1
  /\ countAsked = 0

\* C24: once the effects of useOnlineStatus have run, the isOnline it
\* returns is the direction of the latest online/offline event, or
\* navigator.onLine as the first render read it if there was no event.
C24_LastEvent == mounted => hookOnline = online

\* While the listeners are registered, an event sets isOnline to its
\* direction.
C24_WhileSubscribed ==
  [][(mounted /\ online' # online) => hookOnline' = online']_vars

\* The items whose sort order a step has changed.
Moved == { i \in srvItems : \E j \in srvItems' :
                               j.id = i.id /\ j.sortOrder # i.sortOrder }

\* The version of entity x of table S after the step is n more than before.
Bumped(S, T, id, n) ==
  \A x \in Get(S, id) : \A y \in Get(T, id) : y.version = x.version + n

\* C22: a created list or item starts at version 1; an update of a list
\* and an update or a toggle of an item add exactly 1 to its version and
\* leave the version of every other entity of its kind alone; a reorder
\* leaves the version of every item as it was.  A create, update, delete
\* or reorder of an item also adds 1 to the version of its list, a toggle
\* does not.
C22_Versions ==
  [][/\ \A x \in srvLists' : x.id \notin { l.id : l \in srvLists } =>
                                x.version = 1
     /\ \A x \in srvItems' : x.id \notin { i.id : i \in srvItems } =>
                                x.version = 1
     /\ \A id \in 1..MaxLists :
          ListUpdate(id) =>
            \A k \in 1..MaxLists :
              Bumped(srvLists, srvLists', k, IF k = id THEN 1 ELSE 0)
     /\ \A id \in 1..MaxItems :
          (ItemUpdate(id) \/ ItemToggle(id)) =>
            \A k \in 1..MaxItems :
              Bumped(srvItems, srvItems', k, IF k = id THEN 1 ELSE 0)
     /\ \A lid \in 1..MaxLists, ids \in ReorderRequests :
          ItemReorder(lid, ids) =>
            /\ \A k \in 1..MaxItems : Bumped(srvItems, srvItems', k, 0)
            /\ Bumped(srvLists, srvLists', lid, 1)
     /\ \A id \in 1..MaxItems :
          /\ ItemToggle(id) => srvLists' = srvLists
          /\ (ItemUpdate(id) \/ ItemDelete(id)) =>
               \A i \in Get(srvItems, id) :
                 Bumped(srvLists, srvLists', i.listId, 1)
     /\ \A lid \in 1..MaxLists :
          ItemCreate(lid) => Bumped(srvLists, srvLists', lid, 1)]_vars

\* The first item has been toggled (version 2) and a reorder has moved the
\* second one in front of it without a change of version.
C22_Witness ==
  \E i, j \in srvItems :
    /\ i.id = 1 /\ i.checked /\ i.version = 2 /\ i.sortOrder = 1
    /\ j.id = 2 /\ j.version = 1 /\ j.sortOrder = 0
    /\ j.listId = i.listId

\* The statement of C22 for reorder: every item a reorder moves has its
\* version incremented by 1.
C22_ReorderBumps ==
  [][\A lid \in 1..MaxLists, ids \in ReorderRequests :
       ItemReorder(lid, ids) =>
         \A i \in Moved : Bumped(srvItems, srvItems', i.id, 1)]_vars

\* C23: whatever the interleaving of the Register requests, at most one
\* of them is answered 201, the user table holds at most one user, an
\* admin, and every other Register that has answered was answered 403.
C23_OneRegistration ==
  /\ Cardinality(users) <= 1
  /\ \A u \in users : u.isAdmin
  /\ Cardinality({ r \in 1..MaxRegisters : regs[r].status = 201 }) <= 1
  /\ \A r \in 1..MaxRegisters :
       regs[r].pc = "done" => regs[r].status \in {201, 403}

\* A Register that counts the users when one exists is answered 403 and
\* leaves the user table as it was.
C23_ClosedOnceCounted ==
  [][\A r \in 1..MaxRegisters, u \in {"ann", "bob"} :
       (RegisterCount(r, u) /\ users # {}) =>
         (regs'[r].status = 403 /\ users' = users)]_vars

\* The actions of the log that have failed with a 5xx and await their
\* retry.
AwaitingRetry == { a \in log : a.retryCount > 0 }

\* C25: while the drain has the request of an action in flight, no action
\* enqueued before it is in the log awaiting its retry.
C25_CausalOrder ==
  pc = "fetch" =>
    \A a \in AwaitingRetry : a.seq < actions[idx].seq => a.id = actions[idx].id

\* With ids in the order of the enqueue calls, a drain that has sent the
\* request of an action has sent before it, in this pass, the request of
\* every action of its snapshot enqueued earlier.
C25_EachPassInOrder ==
  (pc = "fetch" /\ \A i, j \in DOMAIN actions :
                     i < j => actions[i].seq < actions[j].seq) =>
    \A i \in 1..(idx - 1) : \E k \in 1..(Len(reqs) - 1) :
      reqs[k] = actions[i].id

\* C26, for a queue that has only ever held one action: while the timer
\* handleRetry set for it is pending (its backoff delay has not elapsed),
\* no drain has the request of the retried action in flight.
C26_BackoffRespected ==
  (nextSeq = 2 /\ timers > 0 /\ pc = "fetch") => actions[idx].retryCount = 0

\* The ids enqueue() can give an action.
ActionIds == (0..MaxClock) \X (1..MaxRand)

\* Action id is in the log after a 5xx, awaiting its retry.
Retried(id) == \E a \in AwaitingRetry : a.id = id

\* The drain has the request of action id in flight, or the log no longer
\* holds the action.
Attempted(id) ==
  \/ id \notin Ids(log)
  \/ pc = "fetch" /\ actions[idx].id = id

\* C27: if from some point on the connection stays up, every action that
\* is in the log awaiting its retry is later sent again (or leaves the
\* log), with no step but those of the drain, of enqueue's continuation
\* and of the retry timers being required to happen.
C27_RetryNotLost ==
  <>[]online => \A id \in ActionIds : Retried(id) ~> Attempted(id)

\* Action id was put into the log after the running pass took its
\* snapshot.
EnqueuedDuringPass(id) ==
  /\ isProcessing
  /\ pc # "load"
  /\ id \in Ids(log)
  /\ \A i \in DOMAIN actions : actions[i].id # id

\* C28: if from some point on the connection stays up, every action
\* enqueued while a pass was running is later sent (or leaves the log),
\* with no step but those of the drain, of enqueue's continuation and of
\* the retry timers being required to happen.
C28_LateEnqueueDrained ==
  <>[]online => \A id \in ActionIds : EnqueuedDuringPass(id) ~> Attempted(id)

\* C30: the retryCount of every action in the log is between 0 and
\* MAX_RETRIES; a step leaves the retryCount of an action that stays in the
\* log as it was or adds exactly 1 to it, and it adds 1 only as the write of
\* handleRetry for that action; an action that enters the log has retryCount
\* 0, unless that write puts back a record removed since handleRetry read
\* it.
C30_RetryCount ==
  /\ [](\A a \in log : a.retryCount \in 0..MAX_RETRIES)
  /\ [][\A b \in log' :
          LET handled == pc = "retryPut" /\ actions[idx].id = b.id
                           /\ b.retryCount = actions[idx].retryCount + 1
          IN  IF b.id \in Ids(log)
              THEN \A a \in log :
                     a.id = b.id =>
                       \/ b.retryCount = a.retryCount
                       \/ b.retryCount = a.retryCount + 1 /\ handled
              ELSE b.retryCount = 0 \/ handled]_vars

\* An action has failed five times and is in the log with retryCount 5.
C30_Witness == \E a \in log : a.retryCount = MAX_RETRIES /\ timers = 1

\* C29: when mutationFn issues the direct call of an update of a list that
\* was called while online, the log holds no action of an update of that
\* list enqueued by the earlier call, made offline.
C29_NoOvertake ==
  [][\A s \in Slots :
       DispatchOnline(s) =>
         \A a \in log : a.type # muts[s].req.kind]_vars

====
